---- MODULE Spec2Model ----
(***************************************************************************)
(* Model of the animation-script pipeline of agent/pipeline.py:            *)
(* AnimationScriptPipeline.process_animation_story and the five stage      *)
(* methods it awaits (optimize_story, design_script, design_storyboard,    *)
(* viewer_experience, review_and_suggest).                                 *)
(*                                                                         *)
(* A Python str is a sequence of tokens: a token is one character of a     *)
(* model-produced value ("a", "b", " ", ...) or one literal piece of an    *)
(* f-string of the source (written in ASCII, the source text is given in   *)
(* the comment beside it).  None is the record None; where a Python        *)
(* variable holds either None/an object or a str, the str is wrapped by    *)
(* Str(_) so that the two can be told apart.                               *)
(***************************************************************************)
EXTENDS Integers, Sequences, FiniteSets, TLC

VARIABLES
    original_story,     \* argument of process_animation_story
    max_iterations,     \* argument of process_animation_story
    pc,                 \* the await the coroutine is suspended at, or its end
    optimized_story,    \* local of process_animation_story (None before line 175)
                        \* (a str, as are review_suggestion and viewer_story)
    script_design,      \* local (None before line 183)
    storyboard,         \* local, line 179
    review_suggestion,  \* local, line 180
    viewer_story,       \* local, line 201
    iteration,          \* local, line 178
    calls,              \* every agent.run(...) call made so far, in order
    outcomes,           \* how each finished agent.run call ended, in order
    result,             \* Returned(the pair returned), or None
    error,              \* Raised(the exception that left the coroutine), or None
    logged,             \* what design_storyboard's except clause logged
    direct,             \* a stage method called on its own (its arguments,
                        \* the text it sent to its agent and what it returned)
    suspended,          \* the frame of a second process_animation_story
                        \* coroutine of the same pipeline object, while the
                        \* event loop runs the first; None when there is none
    tool                \* a call of one of the tools of src/tools in progress
                        \* or finished (what it has done so far); None when
                        \* no tool has been called

pipeline_vars == <<original_story, max_iterations, pc, optimized_story,
                   script_design, storyboard, review_suggestion, viewer_story,
                   iteration, calls, outcomes, result, error, logged>>
vars == <<original_story, max_iterations, pc, optimized_story,
          script_design, storyboard, review_suggestion, viewer_story,
          iteration, calls, outcomes, result, error, logged, direct,
          suspended, tool>>

----------------------------------------------------------------------------
(* Bounds of the model *)

\* largest max_iterations argument tried (the smallest is -2)
MaxIter == 3
\* most shots in a storyboard handed to a stage method called on its own
MaxShots == 2
\* longest text that follows a candidate marker in a reviewer output
MaxSuffix == 1
\* largest max_iterations argument of two runs that interleave
MaxIterTwo == 2
\* most characters, and most plot points, in a ScriptDesignOutput handed to
\* design_storyboard called on its own
MaxItems == 2
\* most entries in the input folder of batch_process_videos
MaxFiles == 2
\* most WhisperModelSingleton(...) constructor calls
MaxNew == 2
\* most segments in what the whisper model returns
MaxSegments == 1
\* most stages the configuration maps no prompt file for
MaxUnmapped == 1

----------------------------------------------------------------------------
(* Python values *)

None == [none |-> TRUE]
Str(t) == [str |-> t]

\* Truthy as an `is not None` test
Truthy_IsNotNone(x) == x /= None

\* bool(x) of a value that is None or a str (the test of `if review_suggestion:`)
Truthy(x) == x /= None /\ x.str /= <<>>

\* isinstance(x, ScriptDesignOutput), for x a ScriptDesignOutput or a str
IsScriptDesignOutput(x) == "characters" \in DOMAIN x

\* text.startswith(prefix)
StartsWith(text, prefix) ==
    /\ Len(text) >= Len(prefix)
    /\ SubSeq(text, 1, Len(prefix)) = prefix

\* sep.join(texts)
RECURSIVE Join(_, _)
Join(texts, sep) ==
    IF texts = <<>> THEN <<>>
    ELSE IF Len(texts) = 1 THEN texts[1]
    ELSE texts[1] \o sep \o Join(Tail(texts), sep)

\* str(n) of an int n >= 0, digit by digit
Digits == <<"0", "1", "2", "3", "4", "5", "6", "7", "8", "9">>
RECURSIVE StrInt(_)
StrInt(n) ==
    IF n < 10 THEN <<Digits[n + 1]>>
    ELSE StrInt(n \div 10) \o <<Digits[(n % 10) + 1]>>

\* repr(s) of a str without quotes or escapes in it
ReprStr(t) == <<"'">> \o t \o <<"'">>

\* str(list) of a list of str: "['x', 'y']"
ReprStrList(texts) ==
    <<"[">> \o Join([i \in 1..Len(texts) |-> ReprStr(texts[i])], <<", ">>) \o <<"]">>

----------------------------------------------------------------------------
(* agent/models.py *)

\* StoryboardInfo(shot_id=..., ..., duration=...)
StoryboardInfo(id, title, scene, acts, bgm, sfx, dur) ==
    [shot_id |-> id, plot_title |-> title, scene_elements |-> scene,
     actions |-> acts, bgm_description |-> bgm, sound_effect |-> sfx,
     duration |-> dur]

CharacterDesign(n, c, a) == [name |-> n, characteristics |-> c, appearance |-> a]

PlotPoint(t, d) == [title |-> t, description |-> d]

ScriptDesignOutput(cs, ps) == [characters |-> cs, plot_points |-> ps]

AnimationScriptOutput(shots) == [storyboards |-> shots]

\* repr(shot) of a StoryboardInfo (pydantic: Name(field='value', ...))
ReprStoryboardInfo(shot) ==
    <<"StoryboardInfo(", "shot_id=">> \o ReprStr(shot.shot_id)
    \o <<", ", "plot_title=">> \o ReprStr(shot.plot_title)
    \o <<", ", "scene_elements=">> \o ReprStr(shot.scene_elements)
    \o <<", ", "actions=">> \o ReprStr(shot.actions)
    \o <<", ", "bgm_description=">> \o ReprStr(shot.bgm_description)
    \o <<", ", "sound_effect=">> \o ReprStr(shot.sound_effect)
    \o <<", ", "duration=">> \o ReprStr(shot.duration)
    \o <<")">>

\* str(x) of the local `storyboard`: None or an AnimationScriptOutput
\* (pydantic: "storyboards=[StoryboardInfo(...), ...]")
StrStoryboard(x) ==
    IF x = None THEN <<"None">>
    ELSE <<"storyboards=", "[">>
         \o Join([i \in 1..Len(x.storyboards) |->
                     ReprStoryboardInfo(x.storyboards[i])], <<", ">>)
         \o <<"]">>

----------------------------------------------------------------------------
(* The text each stage method of agent/pipeline.py sends to its agent *)

\* "【审核通过】", the prefix tested at line 156, character by character
ApprovalMarker == <<"LB", "shen", "he", "tong", "guo", "RB">>

\* NeedContinue with `in` for startswith: the marker anywhere in the text
NeedContinue_MarkerAnywhere(review_output) ==
    ~\E k \in 0..(Len(review_output) - Len(ApprovalMarker)) :
        SubSeq(review_output, k + 1, k + Len(ApprovalMarker)) = ApprovalMarker

\* line 156: need_continue = not review_output.startswith("【审核通过】")
NeedContinue(review_output) == ~StartsWith(review_output, ApprovalMarker)

\* line 87: f"- {char.name}: {char.characteristics}, 外观: {char.appearance}"
CharacterLine(char) ==
    <<"- ">> \o char.name \o <<": ">> \o char.characteristics
    \o <<", appearance: ">> \o char.appearance

\* PlotLine with the description before the title
PlotLine_DescriptionFirst(plot) ==
    <<"-  ">> \o plot.description \o <<": ">> \o plot.title

\* line 90: f"-  {plot.title}: {plot.description}"
PlotLine(plot) == <<"-  ">> \o plot.title \o <<": ">> \o plot.description

\* ScriptText that puts a heading of its own before a str argument
ScriptText_HeadsText(arg) ==
    IF IsScriptDesignOutput(arg)
    THEN <<"\n    characters:\n    ">>
         \o Join([i \in 1..Len(arg.characters) |->
                     CharacterLine(arg.characters[i])], <<"\n">>)
         \o <<"\n    \n    plot points:\n    ">>
         \o Join([i \in 1..Len(arg.plot_points) |->
                     PlotLine(arg.plot_points[i])], <<"\n">>)
         \o <<"\n                ">>
    ELSE <<"\n    revision:\n    ">> \o arg.str

\* lines 82-95 of design_storyboard: the script_text built from its argument,
\* a ScriptDesignOutput (flattened, lines 85-91) or a str (used as it is)
ScriptText(arg) ==
    IF IsScriptDesignOutput(arg)
    THEN <<"\n    characters:\n    ">>             \* "\n    角色设计:\n    "
         \o Join([i \in 1..Len(arg.characters) |->
                     CharacterLine(arg.characters[i])], <<"\n">>)
         \o <<"\n    \n    plot points:\n    ">>   \* "\n    \n    情节点:\n    "
         \o Join([i \in 1..Len(arg.plot_points) |->
                     PlotLine(arg.plot_points[i])], <<"\n">>)
         \o <<"\n                ">>
    ELSE arg.str

\* ViewerEntry numbering the shots as enumerate does, from 0
ViewerEntry_CountsFromZero(i, element, action) ==
    <<"shot">> \o StrInt(i - 1) \o <<". initial composition: ">> \o element
    \o <<"\n   subsequent visual change: ">> \o action \o <<"\n">>

\* line 121, one pass of the loop of viewer_experience (i is i + 1 of the source):
\* f"分镜{i + 1}. 画面一开始的构图描述: {element}\n   画面后续的视觉动态变化: {action}\n"
ViewerEntry(i, element, action) ==
    <<"shot">> \o StrInt(i) \o <<". initial composition: ">> \o element
    \o <<"\n   subsequent visual change: ">> \o action \o <<"\n">>

\* lines 116-121 of viewer_experience: viewer_input
RECURSIVE ViewerEntries(_, _, _)
ViewerEntries(scene_elements, actions, i) ==
    IF i > Len(scene_elements) \/ i > Len(actions) THEN <<>>
    ELSE ViewerEntry(i, scene_elements[i], actions[i])
         \o ViewerEntries(scene_elements, actions, i + 1)

\* ViewerInput that shows the agent each shot whole, str(shot)
ViewerInput_WholeShots(sb) ==
    <<"storyboard shots:\n">>
    \o Join([i \in 1..Len(sb.storyboards) |->
                <<"shot">> \o StrInt(i) \o <<". ">>
                \o ReprStoryboardInfo(sb.storyboards[i]) \o <<"\n">>], <<>>)

ViewerInput(sb) ==
    LET scene_elements == [i \in 1..Len(sb.storyboards) |->
                              sb.storyboards[i].scene_elements]
        actions == [i \in 1..Len(sb.storyboards) |-> sb.storyboards[i].actions]
    IN  <<"storyboard shots:\n">>                   \* "分镜设计中的画面和动作：\n"
        \o ViewerEntries(scene_elements, actions, 1)

\* ReviewInput that also lists the plot titles of the shots
ReviewInput_ListsTitles(story, viewer, sb) ==
    <<"original story:\n">> \o story
    \o <<"\n\nviewer story:\n">> \o viewer
    \o <<"\n\nkey storyboard info:\nscenes: ">>
    \o ReprStrList([i \in 1..Len(sb.storyboards) |->
                       sb.storyboards[i].scene_elements])
    \o <<"\nactions: ">>
    \o ReprStrList([i \in 1..Len(sb.storyboards) |->
                       sb.storyboards[i].actions])
    \o <<"\ntitles: ">>
    \o ReprStrList([i \in 1..Len(sb.storyboards) |->
                       sb.storyboards[i].plot_title])
    \o <<"\n">>

\* lines 141-150 of review_and_suggest: review_input
ReviewInput(story, viewer, sb) ==
    <<"original story:\n">> \o story                \* "原始故事：\n"
    \o <<"\n\nviewer story:\n">> \o viewer          \* "\n\n观看者描述的故事：\n"
    \o <<"\n\nkey storyboard info:\nscenes: ">>     \* "\n\n分镜设计中的关键信息：\n画面："
    \o ReprStrList([i \in 1..Len(sb.storyboards) |->
                       sb.storyboards[i].scene_elements])
    \o <<"\nactions: ">>                            \* "\n动作："
    \o ReprStrList([i \in 1..Len(sb.storyboards) |->
                       sb.storyboards[i].actions])
    \o <<"\n">>

\* RevisionRequest that leaves the suggestion out
RevisionRequest_OmitsFeedback(sb, suggestion) ==
    <<"original design:\n ">> \o StrStoryboard(sb)
    \o <<"\n\n revision notes:\n ">>

\* line 193: f"原分镜设计：\n {storyboard}\n\n 优化建议：\n {review_suggestion}"
RevisionRequest(sb, suggestion) ==
    <<"original design:\n ">> \o StrStoryboard(sb)
    \o <<"\n\n revision notes:\n ">> \o suggestion

----------------------------------------------------------------------------
(* What the agents may answer (pydantic_ai Agent.run: an output of the      *)
(* agent's output_type, or an exception)                                    *)

RawStories == {<<"a">>, <<"b", "a">>}

\* story_optimization_agent, output_type=str
OptimizedStories == {<<>>, <<"a", "b">>}

\* script_design_agent, output_type=ScriptDesignOutput
ScriptDesigns ==
    {ScriptDesignOutput(<<>>, <<>>),
     ScriptDesignOutput(<<CharacterDesign(<<"a">>, <<"b">>, <<"a", "b">>)>>,
                        <<PlotPoint(<<"a">>, <<"b">>), PlotPoint(<<"b">>, <<>>)>>)}

\* storyboard_design_agent, output_type=AnimationScriptOutput
ShotA == StoryboardInfo(<<"1">>, <<"a">>, <<"a">>, <<"b">>, <<"a">>, <<"a">>, <<"1">>)
ShotB == StoryboardInfo(<<"2">>, <<"b">>, <<"b">>, <<"a">>, <<"b">>, <<>>, <<"2">>)
PipelineStoryboards ==
    {AnimationScriptOutput(<<ShotA>>),
     AnimationScriptOutput(<<ShotB, ShotA>>)}

\* viewer_agent, output_type=str
ViewerStories == {<<>>, <<"b">>}

\* reviewer_agent, output_type=str
PipelineReviews ==
    {<<>>, <<"b">>, ApprovalMarker, ApprovalMarker \o <<"a">>}

\* the exceptions an agent call may raise
Errors == {"ModelHTTPError", "UnexpectedModelBehavior"}

\* one agent.run(prompt, deps=self.deps) call: the agent, the arguments of the
\* stage method that makes the call, and the text handed to the agent
AgentCall(agent, args, prompt) == [agent |-> agent, args |-> args, prompt |-> prompt]

\* how an agent.run call ended: result.output of what it returned, or the
\* exception it raised
Returned(output) == [returned |-> output]
Raised(e) == [raised |-> e]
\* an outcome that is a return, one that is an exception
IsReturned(x) == "returned" \in DOMAIN x
IsRaised(x) == "raised" \in DOMAIN x

\* the stage methods, by the agent each awaits
InFlight == {"story_optimization", "script_design", "storyboard_design",
             "viewer", "reviewer"}

----------------------------------------------------------------------------
(* process_animation_story, one action per resumption of the coroutine:     *)
(* from the return of one agent.run to the next agent.run or to the end     *)

\* the local variables all at once
Locals(os, sd, sb, rs, vs, it) ==
    /\ optimized_story' = os
    /\ script_design' = sd
    /\ storyboard' = sb
    /\ review_suggestion' = rs
    /\ viewer_story' = vs
    /\ iteration' = it

\* Return with the pair in the wrong order
Return_Swapped(sb, sd) ==
    /\ pc' = "returned"
    /\ result' = Returned(<<sd, sb>>)
    /\ calls' = calls

\* line 220: return storyboard, script_design
Return(sb, sd) ==
    /\ pc' = "returned"
    /\ result' = Returned(<<sb, sd>>)
    /\ calls' = calls

\* CallDesignStoryboard without the test of line 189: always the revision text
CallDesignStoryboard_AlwaysRevision(sb, rs, sd) ==
    LET arg == Str(RevisionRequest(sb, IF rs = None THEN <<"None">> ELSE rs.str))
    IN  /\ pc' = "storyboard_design"
        /\ calls' = Append(calls, AgentCall("storyboard_design", <<arg>>,
                                            ScriptText(arg)))
        /\ result' = result

\* lines 189-198 and design_storyboard up to its await (line 97)
CallDesignStoryboard(sb, rs, sd) ==
    LET arg == IF Truthy(rs) THEN Str(RevisionRequest(sb, rs.str)) ELSE sd
    IN  /\ pc' = "storyboard_design"
        /\ calls' = Append(calls, AgentCall("storyboard_design", <<arg>>,
                                            ScriptText(arg)))
        /\ result' = result

\* WhileTest that goes on until the counter equals the bound
WhileTest_UntilEqual(it, sb, rs, sd) ==
    IF it /= max_iterations
    THEN CallDesignStoryboard(sb, rs, sd)
    ELSE Return(sb, sd)

\* WhileTest with <= for <
WhileTest_Inclusive(it, sb, rs, sd) ==
    IF it <= max_iterations
    THEN CallDesignStoryboard(sb, rs, sd)
    ELSE Return(sb, sd)

\* line 186: while iteration < max_iterations, with the locals as given
WhileTest(it, sb, rs, sd) ==
    IF it < max_iterations
    THEN CallDesignStoryboard(sb, rs, sd)
    ELSE Return(sb, sd)

\* lines 172-175 and optimize_story up to its await (line 51)
ProcessAnimationStory ==
    /\ pc = "start"
    /\ pc' = "story_optimization"
    /\ calls' = Append(calls, AgentCall("story_optimization",
                                        <<Str(original_story)>>, original_story))
    /\ UNCHANGED <<original_story, max_iterations, optimized_story,
                   script_design, storyboard, review_suggestion, viewer_story,
                   iteration, outcomes, result, error, logged, direct, suspended, tool>>

\* lines 52-53, 175-183 and design_script up to its await (line 66)
OptimizeStoryReturns(output) ==
    /\ pc = "story_optimization"
    /\ outcomes' = Append(outcomes, Returned(Str(output)))
    /\ Locals(Str(output), script_design, None, None, viewer_story, 0)
    /\ pc' = "script_design"
    /\ calls' = Append(calls, AgentCall("script_design", <<Str(output)>>, output))
    /\ UNCHANGED <<original_story, max_iterations, result, error, logged, direct,
                   suspended, tool>>

\* lines 67-68, 183-186 and the first pass up to design_storyboard's await
DesignScriptReturns(output) ==
    /\ pc = "script_design"
    /\ outcomes' = Append(outcomes, Returned(output))
    /\ Locals(optimized_story, output, storyboard, review_suggestion,
              viewer_story, iteration)
    /\ WhileTest(iteration, storyboard, review_suggestion, output)
    /\ UNCHANGED <<original_story, max_iterations, error, logged, direct, suspended, tool>>

\* DesignStoryboardReturns that returns the storyboard of the last pass allowed
\* without showing it to the viewer and the reviewer
DesignStoryboardReturns_SkipsLastReview(output) ==
    /\ pc = "storyboard_design"
    /\ outcomes' = Append(outcomes, Returned(output))
    /\ Locals(optimized_story, script_design, output, review_suggestion,
              viewer_story, iteration)
    /\ IF iteration + 1 >= max_iterations
       THEN Return(output, script_design)
       ELSE /\ pc' = "viewer"
            /\ calls' = Append(calls, AgentCall("viewer", <<output>>,
                                                ViewerInput(output)))
            /\ result' = result
    /\ UNCHANGED <<original_story, max_iterations, error, logged, direct,
                   suspended, tool>>

\* DesignStoryboardReturns binding `storyboard` on the first pass only
DesignStoryboardReturns_KeepsFirst(output) ==
    LET kept == IF storyboard = None THEN output ELSE storyboard
    IN  /\ pc = "storyboard_design"
        /\ outcomes' = Append(outcomes, Returned(output))
        /\ Locals(optimized_story, script_design, kept, review_suggestion,
                  viewer_story, iteration)
        /\ pc' = "viewer"
        /\ calls' = Append(calls, AgentCall("viewer", <<kept>>, ViewerInput(kept)))
        /\ UNCHANGED <<original_story, max_iterations, result, error, logged,
                       direct, suspended, tool>>

\* lines 98-99, 192-201 and viewer_experience up to its await (line 123)
DesignStoryboardReturns(output) ==
    /\ pc = "storyboard_design"
    /\ outcomes' = Append(outcomes, Returned(output))
    /\ Locals(optimized_story, script_design, output, review_suggestion,
              viewer_story, iteration)
    /\ pc' = "viewer"
    /\ calls' = Append(calls, AgentCall("viewer", <<output>>, ViewerInput(output)))
    /\ UNCHANGED <<original_story, max_iterations, result, error, logged, direct,
                   suspended, tool>>

\* ViewerExperienceReturns handing the review the narrative of the pass before
ViewerExperienceReturns_StaleNarrative(output) ==
    LET told == IF viewer_story = None THEN output ELSE viewer_story.str
    IN  /\ pc = "viewer"
        /\ outcomes' = Append(outcomes, Returned(Str(output)))
        /\ Locals(optimized_story, script_design, storyboard, review_suggestion,
                  Str(output), iteration)
        /\ pc' = "reviewer"
        /\ calls' = Append(calls,
                           AgentCall("reviewer",
                                     <<optimized_story, Str(told), storyboard>>,
                                     ReviewInput(optimized_story.str, told,
                                                 storyboard)))
        /\ UNCHANGED <<original_story, max_iterations, result, error, logged,
                       direct, suspended, tool>>

\* ViewerExperienceReturns handing the review the story as it was submitted
ViewerExperienceReturns_ReviewsRawStory(output) ==
    /\ pc = "viewer"
    /\ outcomes' = Append(outcomes, Returned(Str(output)))
    /\ Locals(optimized_story, script_design, storyboard, review_suggestion,
              Str(output), iteration)
    /\ pc' = "reviewer"
    /\ calls' = Append(calls,
                       AgentCall("reviewer",
                                 <<Str(original_story), Str(output), storyboard>>,
                                 ReviewInput(original_story, output, storyboard)))
    /\ UNCHANGED <<original_story, max_iterations, result, error, logged, direct,
                   suspended, tool>>

\* lines 124-125, 201-205 and review_and_suggest up to its await (line 152)
ViewerExperienceReturns(output) ==
    /\ pc = "viewer"
    /\ outcomes' = Append(outcomes, Returned(Str(output)))
    /\ Locals(optimized_story, script_design, storyboard, review_suggestion,
              Str(output), iteration)
    /\ pc' = "reviewer"
    /\ calls' = Append(calls,
                       AgentCall("reviewer",
                                 <<optimized_story, Str(output), storyboard>>,
                                 ReviewInput(optimized_story.str, output, storyboard)))
    /\ UNCHANGED <<original_story, max_iterations, result, error, logged, direct,
                   suspended, tool>>

\* AfterReview without line 213 (the counter stays where it is)
AfterReview_NoIncrement(need_continue, it, sb, rs, sd) ==
    IF ~need_continue
    THEN /\ iteration' = it
         /\ Return(sb, sd)
    ELSE /\ iteration' = it
         /\ IF it >= max_iterations
            THEN Return(sb, sd)
            ELSE WhileTest(it, sb, rs, sd)

\* AfterReview with line 213 moved before the test of line 209
AfterReview_CountsApproval(need_continue, it, sb, rs, sd) ==
    /\ iteration' = it + 1
    /\ IF ~need_continue
       THEN Return(sb, sd)
       ELSE IF it + 1 >= max_iterations
            THEN Return(sb, sd)
            ELSE WhileTest(it + 1, sb, rs, sd)

\* lines 209-217: what follows a review, with its verdict and the counter
AfterReview(need_continue, it, sb, rs, sd) ==
    IF ~need_continue
    THEN /\ iteration' = it
         /\ Return(sb, sd)
    ELSE /\ iteration' = it + 1
         /\ IF it + 1 >= max_iterations
            THEN Return(sb, sd)
            ELSE WhileTest(it + 1, sb, rs, sd)

\* lines 153-158, 205-220 and, when the loop goes on, the next pass up to
\* design_storyboard's await
ReviewAndSuggestReturns(output) ==
    /\ pc = "reviewer"
    /\ outcomes' = Append(outcomes, Returned(Str(output)))
    /\ optimized_story' = optimized_story
    /\ script_design' = script_design
    /\ storyboard' = storyboard
    /\ viewer_story' = viewer_story
    /\ review_suggestion' = Str(output)
    /\ AfterReview(NeedContinue(output), iteration, storyboard, Str(output),
                   script_design)
    /\ UNCHANGED <<original_story, max_iterations, error, logged, direct, suspended, tool>>

\* Propagated with design_storyboard's handler raising an error of its own
Propagated_Wrapped(agent, e) ==
    IF agent = "storyboard_design" THEN "RuntimeError" ELSE e

\* the exception that leaves a stage method when its agent.run raises e:
\* design_storyboard catches it and raises it again with a bare `raise`
\* (lines 100-102), the other four stage methods have no handler
Propagated(agent, e) == e

\* AgentRaises with a handler that makes the failed call again
AgentRaises_Retries(e) ==
    /\ pc \in InFlight
    /\ pc' = pc
    /\ outcomes' = Append(outcomes, Raised(e))
    /\ calls' = Append(calls, calls[Len(calls)])
    /\ logged' = Append(logged, e)
    /\ UNCHANGED <<original_story, max_iterations, optimized_story,
                   script_design, storyboard, review_suggestion, viewer_story,
                   iteration, result, error, direct, suspended, tool>>

\* an agent.run raises: no stage method but design_storyboard has a handler,
\* process_animation_story has none, so the exception leaves the coroutine;
\* lines 100-102 of design_storyboard log it and raise it again
AgentRaises(e) ==
    /\ pc \in InFlight
    /\ pc' = "raised"
    /\ error' = Raised(Propagated(pc, e))
    /\ outcomes' = Append(outcomes, Raised(e))
    /\ logged' = IF pc = "storyboard_design" THEN Append(logged, e) ELSE logged
    /\ UNCHANGED <<original_story, max_iterations, optimized_story,
                   script_design, storyboard, review_suggestion, viewer_story,
                   iteration, calls, result, direct, suspended, tool>>

\* the state when process_animation_story(original_story, max_iterations) is
\* called: nothing awaited yet, no local bound
Init ==
    /\ original_story \in RawStories
    /\ max_iterations \in -2..MaxIter
    /\ pc = "start"
    /\ optimized_story = None
    /\ script_design = None
    /\ storyboard = None
    /\ review_suggestion = None
    /\ viewer_story = None
    /\ iteration = 0
    /\ calls = <<>>
    /\ outcomes = <<>>
    /\ result = None
    /\ error = None
    /\ logged = <<>>
    /\ direct = None
    /\ suspended = None
    /\ tool = None

Next ==
    \/ ProcessAnimationStory
    \/ \E output \in OptimizedStories : OptimizeStoryReturns(output)
    \/ \E output \in ScriptDesigns : DesignScriptReturns(output)
    \/ \E output \in PipelineStoryboards : DesignStoryboardReturns(output)
    \/ \E output \in ViewerStories : ViewerExperienceReturns(output)
    \/ \E output \in PipelineReviews : ReviewAndSuggestReturns(output)
    \/ \E e \in Errors : AgentRaises(e)

Spec == Init /\ [][Next]_vars

\* the run with every agent.run call answered in the end (it returns or it
\* raises; pydantic_ai and the event loop see to that) and the coroutine
\* resumed whenever its call has been answered; every such step moves pc
SpecLive == Init /\ [][Next]_vars /\ WF_pc(Next)

----------------------------------------------------------------------------
(* A run whose caller cancels it.  asyncio throws CancelledError into the    *)
(* coroutine at the await it is suspended at, that is inside agent.run.      *)
(* CancelledError derives from BaseException, so design_storyboard's         *)
(* `except Exception` (line 100) does not catch it, and neither               *)
(* process_animation_story nor another stage method has a handler or a       *)
(* finally clause: the exception leaves the coroutine.                        *)

\* how an agent.run call ended that was cancelled before it was answered
Abandoned == [abandoned |-> TRUE]

\* Cancel with a handler that gives back what the run has so far
Cancel_ReturnsPartial ==
    /\ pc \in InFlight
    /\ pc' = "returned"
    /\ result' = Returned(<<storyboard, script_design>>)
    /\ outcomes' = Append(outcomes, Abandoned)
    /\ UNCHANGED <<original_story, max_iterations, optimized_story,
                   script_design, storyboard, review_suggestion, viewer_story,
                   iteration, calls, error, logged, direct, suspended, tool>>

\* the caller cancels the task while an agent.run call is in flight
Cancel ==
    /\ pc \in InFlight
    /\ pc' = "cancelled"
    /\ error' = Raised("CancelledError")
    /\ outcomes' = Append(outcomes, Abandoned)
    /\ UNCHANGED <<original_story, max_iterations, optimized_story,
                   script_design, storyboard, review_suggestion, viewer_story,
                   iteration, calls, result, logged, direct, suspended, tool>>

InitCancel ==
    /\ Init
    /\ max_iterations \in 0..MaxIterTwo

NextCancel ==
    \/ Next
    \/ Cancel

SpecCancel == InitCancel /\ [][NextCancel]_vars

----------------------------------------------------------------------------
(* Two process_animation_story coroutines of one pipeline object on one      *)
(* asyncio event loop.  The variables above are the locals of the coroutine  *)
(* the loop resumes next; the other's are kept in `suspended`.  A coroutine  *)
(* yields to the loop only inside agent.run, which is where every state of   *)
(* this model stands, so the loop may turn to the other one in any state.    *)
(* The pipeline object is shared: process_animation_story and the stage      *)
(* methods only read it (self.agent_manager, self.deps).                     *)

\* the locals of the coroutine at hand (with its record of calls)
Frame ==
    [original_story |-> original_story, max_iterations |-> max_iterations,
     pc |-> pc, optimized_story |-> optimized_story,
     script_design |-> script_design, storyboard |-> storyboard,
     review_suggestion |-> review_suggestion, viewer_story |-> viewer_story,
     iteration |-> iteration, calls |-> calls, outcomes |-> outcomes,
     result |-> result, error |-> error, logged |-> logged]

\* the frame of process_animation_story(story, n) before its first step
StartFrame(story, n) ==
    [original_story |-> story, max_iterations |-> n,
     pc |-> "start", optimized_story |-> None,
     script_design |-> None, storyboard |-> None,
     review_suggestion |-> None, viewer_story |-> None,
     iteration |-> 0, calls |-> <<>>, outcomes |-> <<>>,
     result |-> None, error |-> None, logged |-> <<>>]

\* SwitchRun with the counter kept on the pipeline object (self.iteration),
\* so that it is the one thing the two coroutines share
SwitchRun_SharedIteration ==
    /\ suspended /= None
    /\ original_story' = suspended.original_story
    /\ max_iterations' = suspended.max_iterations
    /\ pc' = suspended.pc
    /\ optimized_story' = suspended.optimized_story
    /\ script_design' = suspended.script_design
    /\ storyboard' = suspended.storyboard
    /\ review_suggestion' = suspended.review_suggestion
    /\ viewer_story' = suspended.viewer_story
    /\ iteration' = iteration
    /\ calls' = suspended.calls
    /\ outcomes' = suspended.outcomes
    /\ result' = suspended.result
    /\ error' = suspended.error
    /\ logged' = suspended.logged
    /\ suspended' = Frame
    /\ UNCHANGED <<direct, tool>>

\* the event loop turns to the other coroutine: each has its own locals
\* (lines 175-205 bind locals, nothing is written to self)
SwitchRun ==
    /\ suspended /= None
    /\ original_story' = suspended.original_story
    /\ max_iterations' = suspended.max_iterations
    /\ pc' = suspended.pc
    /\ optimized_story' = suspended.optimized_story
    /\ script_design' = suspended.script_design
    /\ storyboard' = suspended.storyboard
    /\ review_suggestion' = suspended.review_suggestion
    /\ viewer_story' = suspended.viewer_story
    /\ iteration' = suspended.iteration
    /\ calls' = suspended.calls
    /\ outcomes' = suspended.outcomes
    /\ result' = suspended.result
    /\ error' = suspended.error
    /\ logged' = suspended.logged
    /\ suspended' = Frame
    /\ UNCHANGED <<direct, tool>>

\* what the agents answer in the runs that interleave
TwoRunsOptimized == {<<"a", "b">>}
TwoRunsScriptDesigns ==
    {ScriptDesignOutput(<<CharacterDesign(<<"a">>, <<"b">>, <<"a", "b">>)>>,
                        <<PlotPoint(<<"a">>, <<"b">>)>>)}
TwoRunsViewerStories == {<<"b">>}
TwoRunsReviews == {<<"b">>, ApprovalMarker}
TwoRunsErrors == {"ModelHTTPError"}

\* two calls of process_animation_story, with different stories
InitTwoRuns ==
    /\ Init
    /\ original_story = <<"a">>
    /\ max_iterations \in 0..MaxIterTwo

\* a second process_animation_story(story, n) is called (its coroutine is
\* created) before the event loop has run the first
StartSecondRun(story, n) ==
    /\ pc = "start"
    /\ suspended = None
    /\ suspended' = StartFrame(story, n)
    /\ UNCHANGED <<pipeline_vars, direct, tool>>

\* both coroutines exist
BothRuns == suspended /= None

NextTwoRuns ==
    \/ \E n \in 0..MaxIterTwo : StartSecondRun(<<"b", "a">>, n)
    \/ BothRuns /\ ProcessAnimationStory
    \/ BothRuns /\ \E output \in TwoRunsOptimized : OptimizeStoryReturns(output)
    \/ BothRuns /\ \E output \in TwoRunsScriptDesigns : DesignScriptReturns(output)
    \/ BothRuns /\ \E output \in PipelineStoryboards : DesignStoryboardReturns(output)
    \/ BothRuns /\ \E output \in TwoRunsViewerStories : ViewerExperienceReturns(output)
    \/ BothRuns /\ \E output \in TwoRunsReviews : ReviewAndSuggestReturns(output)
    \/ BothRuns /\ \E e \in TwoRunsErrors : AgentRaises(e)
    \/ SwitchRun

SpecTwoRuns == InitTwoRuns /\ [][NextTwoRuns]_vars

----------------------------------------------------------------------------
(* The stage methods called on their own, as test code and callers of one    *)
(* stage do: `direct` holds the call, None while no method has been called   *)

\* the values of the fields of a shot that the viewer and the reviewer are
\* shown (scene_elements, actions) ...
SceneTexts == {<<"a">>, <<"b", "a">>}
ActionTexts == {<<>>, <<"b">>}
\* ... and of those they are not (shot_id, plot_title, bgm_description,
\* sound_effect, duration)
Unseen ==
    {<<<<"1">>, <<"a">>, <<"a">>, <<"a">>, <<"1">>>>,
     <<<<"1">>, <<"a">>, <<"b">>, <<>>, <<"1">>>>,
     <<<<"2">>, <<"b">>, <<"a">>, <<"a">>, <<"2">>>>}

Shots ==
    {StoryboardInfo(u[1], u[2], scene, acts, u[3], u[4], u[5]) :
        scene \in SceneTexts, acts \in ActionTexts, u \in Unseen}

\* every AnimationScriptOutput of at most MaxShots of these shots
Storyboards ==
    {AnimationScriptOutput(shots) :
        shots \in UNION {[1..n -> Shots] : n \in 0..MaxShots}}

\* reviewer outputs: nothing, the approval marker, and texts that are near it
\* (the marker after a blank or after a letter, without its first or its last
\* character, with ASCII brackets), each followed by at most MaxSuffix
\* characters
NearMarkers ==
    {<<>>,
     ApprovalMarker,
     <<" ">> \o ApprovalMarker,
     <<"a">> \o ApprovalMarker,
     Tail(ApprovalMarker),
     SubSeq(ApprovalMarker, 1, Len(ApprovalMarker) - 1),
     <<"[", "shen", "he", "tong", "guo", "]">>}
Suffixes == UNION {[1..n -> {"a", " "}] : n \in 0..MaxSuffix}
ReviewTexts == {m \o x : m \in NearMarkers, x \in Suffixes}

\* a stage method has made its agent.run call
DirectCall(method, args, prompt) ==
    [method |-> method, args |-> args, prompt |-> prompt,
     agent_output |-> None, value |-> None]

\* viewer_experience(storyboard) up to its await (lines 114-123)
CallViewerExperience(sb) ==
    /\ direct = None
    /\ direct' = DirectCall("viewer_experience", <<sb>>, ViewerInput(sb))
    /\ UNCHANGED <<pipeline_vars, suspended, tool>>

\* lines 124-125: return result.output
ViewerExperienceDone(output) ==
    /\ direct /= None
    /\ direct.method = "viewer_experience"
    /\ direct.agent_output = None
    /\ direct' = [direct EXCEPT !.agent_output = Returned(Str(output)),
                                !.value = Returned(Str(output))]
    /\ UNCHANGED <<pipeline_vars, suspended, tool>>

\* review_and_suggest(original_story, viewer_story, storyboard) up to its
\* await (lines 140-152)
CallReviewAndSuggest(story, viewer, sb) ==
    /\ direct = None
    /\ direct' = DirectCall("review_and_suggest", <<Str(story), Str(viewer), sb>>,
                            ReviewInput(story, viewer, sb))
    /\ UNCHANGED <<pipeline_vars, suspended, tool>>

\* lines 153-158: return review_output, need_continue
ReviewAndSuggestDone(output) ==
    /\ direct /= None
    /\ direct.method = "review_and_suggest"
    /\ direct.agent_output = None
    /\ direct' = [direct EXCEPT !.agent_output = Returned(Str(output)),
                                !.value = Returned(<<Str(output),
                                                     NeedContinue(output)>>)]
    /\ UNCHANGED <<pipeline_vars, suspended, tool>>

\* the agent.run of a method called on its own raises: neither method has a
\* handler, so nothing is returned
DirectAgentRaises(e) ==
    /\ direct /= None
    /\ direct.agent_output = None
    /\ direct' = [direct EXCEPT !.agent_output = Raised(e)]
    /\ UNCHANGED <<pipeline_vars, suspended, tool>>

\* a pipeline object on which process_animation_story is not running
InitStage ==
    /\ Init
    /\ original_story = <<"a">>
    /\ max_iterations = 3

NextViewer ==
    \/ \E sb \in Storyboards : CallViewerExperience(sb)
    \/ \E output \in ViewerStories : ViewerExperienceDone(output)
    \/ \E e \in Errors : DirectAgentRaises(e)

SpecViewer == InitStage /\ [][NextViewer]_vars

NextReview ==
    \/ \E story \in OptimizedStories, viewer \in ViewerStories,
          sb \in PipelineStoryboards \cup {AnimationScriptOutput(<<>>)} :
          CallReviewAndSuggest(story, viewer, sb)
    \/ \E output \in ReviewTexts : ReviewAndSuggestDone(output)
    \/ \E e \in Errors : DirectAgentRaises(e)

SpecReview == InitStage /\ [][NextReview]_vars

\* design_storyboard called on its own: ScriptDesignOutputs of at most MaxItems
\* characters and at most MaxItems plot points ...
StageCharacters ==
    {CharacterDesign(<<"a">>, <<"b">>, <<"a", "b">>),
     CharacterDesign(<<"b">>, <<>>, <<"a">>)}
StagePlotPoints == {PlotPoint(<<"a">>, <<"b">>), PlotPoint(<<"b">>, <<>>)}
StageScriptDesigns ==
    {ScriptDesignOutput(cs, ps) :
        cs \in UNION {[1..n -> StageCharacters] : n \in 0..MaxItems},
        ps \in UNION {[1..n -> StagePlotPoints] : n \in 0..MaxItems}}

\* ... and str arguments: nothing, plain texts (one with blanks and line
\* breaks at its ends), a text that reads like a flattened ScriptDesignOutput,
\* and the revision texts of line 193
StageTexts ==
    {<<>>,
     <<"a">>,
     <<" ", "b", "a", "\n">>,
     ScriptText(ScriptDesignOutput(<<CharacterDesign(<<"a">>, <<"b">>, <<"a">>)>>,
                                   <<PlotPoint(<<"a">>, <<"b">>)>>))}
    \cup {RevisionRequest(sb, rs) :
             sb \in PipelineStoryboards, rs \in {<<>>, <<"b">>}}

\* design_storyboard(script_design) up to its await (lines 80-97)
CallDesignStoryboardAlone(arg) ==
    /\ direct = None
    /\ direct' = DirectCall("design_storyboard", <<arg>>, ScriptText(arg))
    /\ UNCHANGED <<pipeline_vars, suspended, tool>>

\* lines 98-99: return result.output
DesignStoryboardDone(output) ==
    /\ direct /= None
    /\ direct.method = "design_storyboard"
    /\ direct.agent_output = None
    /\ direct' = [direct EXCEPT !.agent_output = Returned(output),
                                !.value = Returned(output)]
    /\ UNCHANGED <<pipeline_vars, suspended, tool>>

\* lines 100-102: the agent.run raises, the handler logs and raises again
DesignStoryboardFailed(e) ==
    /\ direct /= None
    /\ direct.method = "design_storyboard"
    /\ direct.agent_output = None
    /\ direct' = [direct EXCEPT
                     !.agent_output = Raised(e),
                     !.value = Raised(Propagated("storyboard_design", e))]
    /\ logged' = Append(logged, e)
    /\ UNCHANGED <<original_story, max_iterations, pc, optimized_story,
                   script_design, storyboard, review_suggestion, viewer_story,
                   iteration, calls, outcomes, result, error, suspended, tool>>

NextStoryboard ==
    \/ \E arg \in StageScriptDesigns : CallDesignStoryboardAlone(arg)
    \/ \E text \in StageTexts : CallDesignStoryboardAlone(Str(text))
    \/ \E output \in PipelineStoryboards : DesignStoryboardDone(output)
    \/ \E e \in Errors : DesignStoryboardFailed(e)

SpecStoryboard == InitStage /\ [][NextStoryboard]_vars

----------------------------------------------------------------------------
(* tools/human_matting_tool.py and tools/subject_matting_tool.py:            *)
(* batch_process_videos, the same loop in both classes.  A file name is the  *)
(* sequence of its characters.                                               *)

\* c.lower() of one character
LowerChar(c) ==
    CASE c = "A" -> "a" [] c = "I" -> "i" [] c = "K" -> "k" [] c = "M" -> "m"
      [] c = "O" -> "o" [] c = "P" -> "p" [] c = "V" -> "v" [] OTHER -> c

\* name.lower()
Lower(name) == [i \in DOMAIN name |-> LowerChar(name[i])]

\* name.rfind("."), from 1 (0 when name has no dot)
LastDot(name) ==
    IF \A i \in DOMAIN name : name[i] /= "." THEN 0
    ELSE CHOOSE i \in DOMAIN name :
             name[i] = "." /\ \A j \in DOMAIN name : name[j] = "." => j <= i

\* os.path.splitext(name)[1] of a name without a path separator: what
\* starts at the last dot, unless only dots stand before it
SplitExt(name) ==
    LET dot == LastDot(name)
    IN  IF dot > 0 /\ \E i \in 1..(dot - 1) : name[i] /= "."
        THEN SubSeq(name, dot, Len(name))
        ELSE <<>>

\* line 109 of human_matting_tool.py, 116 of subject_matting_tool.py
supported_exts ==
    {<<".", "m", "p", "4">>, <<".", "a", "v", "i">>,
     <<".", "m", "o", "v">>, <<".", "m", "k", "v">>}

\* file_ext = os.path.splitext(filename)[1].lower()
FileExt(filename) == Lower(SplitExt(filename))

\* the names an input folder may hold
FileNames ==
    {<<"a", ".", "m", "p", "4">>,
     <<"b", ".", "M", "P", "4">>,
     <<"c", ".", "A", "v", "i">>,
     <<"d", ".", "m", "o", "v">>,
     <<"e", ".", "t", ".", "M", "K", "V">>,
     <<"f", ".", "m", "p", "3">>,
     <<"g", ".", "m", "p", "4", ".", "b">>,
     <<"m", "p", "4">>,
     <<".", "m", "p", "4">>,
     <<"h", ".", "m", "p", "4", " ">>}

\* os.listdir(input_folder): the entries of the folder, each once, in the
\* order the system gives them
Listings ==
    {l \in UNION {[1..n -> FileNames] : n \in 0..MaxFiles} :
        \A i, j \in DOMAIN l : l[i] = l[j] => i = j}

\* the classes that have the method
MattingTools == {"HumanMattingTool", "SubjectMattingTool"}

\* what matting_video may raise (an Exception)
MattingErrors == {"RuntimeError", "FileNotFoundError"}

\* batch_process_videos(input_folder, output_folder) up to its loop
BatchProcessVideos(class, listing) ==
    /\ tool = None
    /\ tool' = [class |-> class, method |-> "batch_process_videos",
                listing |-> listing, todo |-> listing, attempts |-> <<>>,
                errors |-> <<>>, raised |-> None, returned |-> FALSE]
    /\ UNCHANGED <<pipeline_vars, direct, suspended>>

\* the loop is at a name whose extension is not a supported one: next name
SkipFile ==
    /\ tool /= None
    /\ tool.method = "batch_process_videos"
    /\ tool.raised = None
    /\ tool.todo /= <<>>
    /\ FileExt(Head(tool.todo)) \notin supported_exts
    /\ tool' = [tool EXCEPT !.todo = Tail(tool.todo)]
    /\ UNCHANGED <<pipeline_vars, direct, suspended>>

\* the loop is at a video and matting_video returns
MattingVideoReturns ==
    /\ tool /= None
    /\ tool.method = "batch_process_videos"
    /\ tool.raised = None
    /\ tool.todo /= <<>>
    /\ FileExt(Head(tool.todo)) \in supported_exts
    /\ tool' = [tool EXCEPT !.todo = Tail(tool.todo),
                            !.attempts = Append(tool.attempts, Head(tool.todo))]
    /\ UNCHANGED <<pipeline_vars, direct, suspended>>

\* MattingVideoRaises without the handler: the exception ends the batch
MattingVideoRaises_Propagates(e) ==
    /\ tool /= None
    /\ tool.method = "batch_process_videos"
    /\ tool.raised = None
    /\ tool.todo /= <<>>
    /\ FileExt(Head(tool.todo)) \in supported_exts
    /\ tool' = [tool EXCEPT !.attempts = Append(tool.attempts, Head(tool.todo)),
                            !.raised = Raised(e)]
    /\ UNCHANGED <<pipeline_vars, direct, suspended>>

\* the loop is at a video and matting_video raises: the handler logs the
\* name and the error, and the loop goes on
MattingVideoRaises(e) ==
    /\ tool /= None
    /\ tool.method = "batch_process_videos"
    /\ tool.raised = None
    /\ tool.todo /= <<>>
    /\ FileExt(Head(tool.todo)) \in supported_exts
    /\ tool' = [tool EXCEPT !.todo = Tail(tool.todo),
                            !.attempts = Append(tool.attempts, Head(tool.todo)),
                            !.errors = Append(tool.errors,
                                              <<Head(tool.todo), e>>)]
    /\ UNCHANGED <<pipeline_vars, direct, suspended>>

\* the loop is over: batch_process_videos returns (None)
BatchReturns ==
    /\ tool /= None
    /\ tool.method = "batch_process_videos"
    /\ tool.raised = None
    /\ ~tool.returned
    /\ tool.todo = <<>>
    /\ tool' = [tool EXCEPT !.returned = TRUE]
    /\ UNCHANGED <<pipeline_vars, direct, suspended>>

NextBatch ==
    \/ \E class \in MattingTools, listing \in Listings :
          BatchProcessVideos(class, listing)
    \/ SkipFile
    \/ MattingVideoReturns
    \/ \E e \in MattingErrors : MattingVideoRaises(e)
    \/ BatchReturns

SpecBatch == InitStage /\ [][NextBatch]_vars

----------------------------------------------------------------------------
(* tools/transcribe_asr/transcribe_tool.py and asr_tool.py: the class       *)
(* WhisperModelSingleton (the same __new__ in both modules; transcribe_video *)
(* in transcribe_tool.py only).  Calls are made one after the other.         *)

WhisperModules == {"transcribe_tool", "asr_tool"}

\* the object super().__new__(cls) makes
Instance == [class |-> "WhisperModelSingleton"]

\* WhisperModel(model_size_or_path=path, device=device), loaded
WhisperModel(path, device) == [model_size_or_path |-> path, device |-> device]

ModelSizes == {"large-v3", "small"}
Devices == {"cuda", "cpu"}
\* what WhisperModel(...) may raise (no such device, download failed)
LoadErrors == {"RuntimeError", "ConnectionError"}

\* the class statement: _instance = None, _model = None
ImportWhisper(module) ==
    /\ tool = None
    /\ tool' = [module |-> module, method |-> "WhisperModelSingleton",
                _instance |-> None, _model |-> None, loads |-> 0,
                handed |-> <<>>, call |-> None]
    /\ UNCHANGED <<pipeline_vars, direct, suspended>>

\* the WhisperModelSingleton class has been defined
WhisperDefined == tool /= None /\ tool.method = "WhisperModelSingleton"

\* no call of transcribe_video is under way
NoCallUnderWay ==
    IF tool.call = None THEN TRUE ELSE tool.call.outcome /= None

\* New that binds _instance only when the model has loaded
New_BindsAfterLoad(model_size, device, local, load) ==
    /\ WhisperDefined
    /\ Len(tool.handed) < MaxNew
    /\ NoCallUnderWay
    /\ IF tool._instance = None
       THEN IF load = "loaded"
            THEN tool' = [tool EXCEPT
                             !._instance = Instance,
                             !._model = WhisperModel(IF local
                                                     THEN "LOCAL_MODEL_PATH"
                                                     ELSE model_size, device),
                             !.loads = tool.loads + 1,
                             !.handed = Append(tool.handed,
                                               Returned(Instance))]
            ELSE tool' = [tool EXCEPT
                             !.handed = Append(tool.handed, Raised(load))]
       ELSE /\ model_size = "large-v3" /\ device = "cuda" /\ local
            /\ load = "loaded"
            /\ tool' = [tool EXCEPT
                            !.handed = Append(tool.handed,
                                              Returned(tool._instance))]
    /\ UNCHANGED <<pipeline_vars, direct, suspended>>

\* WhisperModelSingleton(model_size, device), lines 16-35: local is
\* os.path.exists(LOCAL_MODEL_PATH), load is how WhisperModel(...) ends.
\* With _instance bound the arguments are not read and nothing is loaded
\* (one choice of them stands for all).
New(model_size, device, local, load) ==
    /\ WhisperDefined
    /\ Len(tool.handed) < MaxNew
    /\ NoCallUnderWay
    /\ IF tool._instance = None
       THEN IF load = "loaded"
            THEN tool' = [tool EXCEPT
                             !._instance = Instance,
                             !._model = WhisperModel(IF local
                                                     THEN "LOCAL_MODEL_PATH"
                                                     ELSE model_size, device),
                             !.loads = tool.loads + 1,
                             !.handed = Append(tool.handed,
                                               Returned(Instance))]
            ELSE tool' = [tool EXCEPT
                             !._instance = Instance,
                             !.handed = Append(tool.handed, Raised(load))]
       ELSE /\ model_size = "large-v3" /\ device = "cuda" /\ local
            /\ load = "loaded"
            /\ tool' = [tool EXCEPT
                            !.handed = Append(tool.handed,
                                              Returned(tool._instance))]
    /\ UNCHANGED <<pipeline_vars, direct, suspended>>

\* the inputs and outputs of transcribe_video
VideoPaths == {"a.mp4", "b.mov"}
Segments == UNION {[1..n -> {"s1", "s2"}] : n \in 0..MaxSegments}
Infos == {"zh", "en"}
\* _extract_audio_from_video raises: RuntimeError made of ffmpeg's
\* CalledProcessError (lines 94-97), or ffmpeg cannot be started
ExtractErrors == {"RuntimeError", "FileNotFoundError"}
\* self._model.transcribe or list(segments) raises
TranscribeErrors == {"ValueError"}

\* Cleanup as a statement after the transcription, not a finally clause
Cleanup_OnReturnOnly(exists, raising) == IF raising THEN exists ELSE FALSE

\* lines 68-70, the finally clause: whether the temporary file exists after
\* it, given whether it existed before (raising: an exception is under way)
Cleanup(exists, raising) == IF exists THEN FALSE ELSE exists

\* someone holds the instance: a constructor call has returned it
Handed ==
    /\ WhisperDefined
    /\ \E i \in DOMAIN tool.handed : IsReturned(tool.handed[i])

\* transcribe_video(video_path) up to the ffmpeg run: lines 56-61, 93;
\* the temporary file is made and kept (delete=False)
TranscribeVideo(video_path) ==
    /\ Handed
    /\ tool.module = "transcribe_tool"
    /\ tool.call = None
    /\ tool' = [tool EXCEPT !.call =
                    [video_path |-> video_path, tmp_exists |-> TRUE,
                     extracted |-> None, transcribe_calls |-> 0,
                     removed |-> FALSE, outcome |-> None]]
    /\ UNCHANGED <<pipeline_vars, direct, suspended>>

\* the extraction is under way
Extracting ==
    /\ WhisperDefined
    /\ tool.call /= None
    /\ tool.call.extracted = None

\* ffmpeg fails (left tells whether it leaves the output file behind):
\* the exception goes through the finally clause and leaves transcribe_video
ExtractRaises(e, left) ==
    /\ Extracting
    /\ tool' = [tool EXCEPT !.call.extracted = Raised(e),
                            !.call.removed = left,
                            !.call.tmp_exists = Cleanup(left, TRUE),
                            !.call.outcome = Raised(e)]
    /\ UNCHANGED <<pipeline_vars, direct, suspended>>

\* the transcription is under way
Transcribing ==
    /\ WhisperDefined
    /\ tool.call /= None
    /\ tool.call.extracted /= None
    /\ tool.call.outcome = None

\* ffmpeg succeeds, transcribe is called (line 64) and, the model loaded,
\* line 44 calls it
ExtractReturns ==
    /\ Extracting
    /\ tool' = [tool EXCEPT !.call.extracted = Returned(TRUE),
                            !.call.transcribe_calls = 1]
    /\ UNCHANGED <<pipeline_vars, direct, suspended>>

\* lines 44-46, 66, 68-70: the segments and the info are returned
TranscribeReturns(segments, info) ==
    /\ Transcribing
    /\ tool._model /= None
    /\ tool' = [tool EXCEPT !.call.removed = tool.call.tmp_exists,
                            !.call.tmp_exists = Cleanup(tool.call.tmp_exists,
                                                        FALSE),
                            !.call.outcome = Returned(<<segments, info>>)]
    /\ UNCHANGED <<pipeline_vars, direct, suspended>>

\* line 44 raises: the model's error, or AttributeError when _model is None
TranscribeRaises(e) ==
    /\ Transcribing
    /\ IF tool._model = None THEN e = "AttributeError"
                             ELSE e \in TranscribeErrors
    /\ tool' = [tool EXCEPT !.call.removed = tool.call.tmp_exists,
                            !.call.tmp_exists = Cleanup(tool.call.tmp_exists,
                                                        TRUE),
                            !.call.outcome = Raised(e)]
    /\ UNCHANGED <<pipeline_vars, direct, suspended>>

NextWhisper ==
    \/ \E module \in WhisperModules : ImportWhisper(module)
    \/ \E model_size \in ModelSizes, device \in Devices, local \in BOOLEAN,
          load \in {"loaded"} \cup LoadErrors :
          New(model_size, device, local, load)
    \/ \E video_path \in VideoPaths : TranscribeVideo(video_path)
    \/ \E e \in ExtractErrors, left \in BOOLEAN : ExtractRaises(e, left)
    \/ ExtractReturns
    \/ \E segments \in Segments, info \in Infos :
          TranscribeReturns(segments, info)
    \/ \E e \in TranscribeErrors \cup {"AttributeError"} : TranscribeRaises(e)

SpecWhisper == InitStage /\ [][NextWhisper]_vars

----------------------------------------------------------------------------
(* agent/agent_manager.py: AgentManager(config_manager, prompt_manager,      *)
(* model_manager), constructed by the pipeline's __init__ (pipeline.py line  *)
(* 33), and a run of process_animation_story on the agents it has bound.     *)

\* what agent_prompt_mapping of the configuration gives for a stage: a file
\* name, the empty string, or nothing (get_agent_prompt_file returns None)
PromptFiles == {Str(<<"p">>), Str(<<>>), None}

\* the configurations: stage name to prompt file
PromptMappings ==
    {m \in [InFlight -> PromptFiles] :
        Cardinality({stage \in InFlight : ~Truthy(m[stage])}) <= MaxUnmapped}

\* config_manager.get_agent_prompt_file(agent_name)
get_agent_prompt_file(mapping, agent_name) == mapping[agent_name]

\* output_type of the Agent of each stage
OutputType(stage) ==
    CASE stage = "script_design" -> "ScriptDesignOutput"
      [] stage = "storyboard_design" -> "AnimationScriptOutput"
      [] OTHER -> "str"

\* Agent(model, output_type=..., system_prompt=...)
Agent(stage, prompt_file) ==
    [output_type |-> OutputType(stage), system_prompt |-> prompt_file]

\* one of the five blocks of _init_agents: the agent is made `if prompt_file:`
\* and is left None otherwise
InitAgent(mapping, stage) ==
    LET prompt_file == get_agent_prompt_file(mapping, stage)
    IN  IF Truthy(prompt_file) THEN Agent(stage, prompt_file) ELSE None

\* the stages _init_agents reads a prompt for
Prompted(mapping) == {stage \in InFlight : Truthy(mapping[stage])}

\* AgentManager.__init__: unreadable is the set of stages whose prompt file
\* read_prompt cannot open (FileNotFoundError leaves the constructor)
AgentManagerInit(mapping, unreadable) ==
    /\ tool = None
    /\ pc = "start"
    /\ LET read == Prompted(mapping) \cap unreadable = {}
       IN  tool' = [method |-> "AgentManager", mapping |-> mapping,
                    agents |-> [stage \in InFlight |->
                                   InitAgent(mapping, stage)],
                    outcome |-> IF read THEN Returned(TRUE)
                                ELSE Raised("FileNotFoundError"),
                    \* line 104, the one message of the constructor
                    info |-> IF read THEN <<"all agents initialised">>
                             ELSE <<>>]
    /\ UNCHANGED <<pipeline_vars, direct, suspended>>

\* the pipeline object exists: AgentManager(...) has returned
Constructed ==
    /\ tool /= None
    /\ tool.method = "AgentManager"
    /\ IsReturned(tool.outcome)

\* self.agent_manager.<stage>_agent is an Agent
Bound(stage) == tool.agents[stage] /= None

\* a step of the run that awaits no agent or one that is bound
StepOnBoundAgent ==
    /\ Constructed
    /\ Next
    /\ calls' /= calls => Bound(calls'[Len(calls')].agent)

\* `None.run`: AttributeError at the line of the call, no call made;
\* in design_storyboard (line 97) it is inside the try and is logged
NoAgent(stage) ==
    /\ ~Bound(stage)
    /\ pc' = "raised"
    /\ error' = Raised("AttributeError")
    /\ logged' = IF stage = "storyboard_design"
                 THEN Append(logged, "AttributeError") ELSE logged
    /\ UNCHANGED <<original_story, max_iterations, calls, result, direct,
                   suspended, tool>>

\* line 51 with story_optimization_agent None
OptimizeStoryNoAgent ==
    /\ Constructed
    /\ pc = "start"
    /\ NoAgent("story_optimization")
    /\ UNCHANGED <<optimized_story, script_design, storyboard,
                   review_suggestion, viewer_story, iteration, outcomes>>

\* lines 52-53, 175-183 and line 66 with script_design_agent None
DesignScriptNoAgent(output) ==
    /\ Constructed
    /\ pc = "story_optimization"
    /\ outcomes' = Append(outcomes, Returned(Str(output)))
    /\ Locals(Str(output), script_design, None, None, viewer_story, 0)
    /\ NoAgent("script_design")

\* lines 67-68, 183-192 and line 97 with storyboard_design_agent None
DesignStoryboardNoAgent(output) ==
    /\ Constructed
    /\ pc = "script_design"
    /\ iteration < max_iterations
    /\ outcomes' = Append(outcomes, Returned(output))
    /\ Locals(optimized_story, output, storyboard, review_suggestion,
              viewer_story, iteration)
    /\ NoAgent("storyboard_design")

\* lines 98-99, 192-201 and line 123 with viewer_agent None
ViewerExperienceNoAgent(output) ==
    /\ Constructed
    /\ pc = "storyboard_design"
    /\ outcomes' = Append(outcomes, Returned(output))
    /\ Locals(optimized_story, script_design, output, review_suggestion,
              viewer_story, iteration)
    /\ NoAgent("viewer")

\* lines 124-125, 201-205 and line 152 with reviewer_agent None
ReviewAndSuggestNoAgent(output) ==
    /\ Constructed
    /\ pc = "viewer"
    /\ outcomes' = Append(outcomes, Returned(Str(output)))
    /\ Locals(optimized_story, script_design, storyboard, review_suggestion,
              Str(output), iteration)
    /\ NoAgent("reviewer")

\* the pipeline is constructed and process_animation_story(story, 1) called
InitAgents ==
    /\ Init
    /\ original_story = <<"a">>
    /\ max_iterations = 1

NextAgents ==
    \/ \E mapping \in PromptMappings, unreadable \in {{}, {"viewer"}} :
          AgentManagerInit(mapping, unreadable)
    \/ StepOnBoundAgent
    \/ OptimizeStoryNoAgent
    \/ \E output \in OptimizedStories : DesignScriptNoAgent(output)
    \/ \E output \in ScriptDesigns : DesignStoryboardNoAgent(output)
    \/ \E output \in PipelineStoryboards : ViewerExperienceNoAgent(output)
    \/ \E output \in ViewerStories : ReviewAndSuggestNoAgent(output)

SpecAgents == InitAgents /\ [][NextAgents]_vars

----------------------------------------------------------------------------
(* Reading the history of a run *)

\* the positions in `calls` of the calls to one agent
CallsTo(agent) == {i \in DOMAIN calls : calls[i].agent = agent}
NumCalls(agent) == Cardinality(CallsTo(agent))

HasReturned(i) == i \in DOMAIN outcomes /\ "returned" \in DOMAIN outcomes[i]
HasRaised(i) == i \in DOMAIN outcomes /\ "raised" \in DOMAIN outcomes[i]

\* call i is a review whose output begins with the approval marker
Approves(i) ==
    /\ calls[i].agent = "reviewer"
    /\ HasReturned(i)
    /\ StartsWith(outcomes[i].returned.str, ApprovalMarker)

NoFailure == \A i \in DOMAIN outcomes : ~HasRaised(i)
NoApproval == \A i \in DOMAIN calls : ~Approves(i)

\* the position of the latest call to an agent (0 when there is none)
LastCallTo(agent) ==
    IF CallsTo(agent) = {} THEN 0
    ELSE CHOOSE i \in CallsTo(agent) : \A j \in CallsTo(agent) : j <= i

\* text contains sub as a contiguous piece
Contains(text, sub) ==
    \E k \in 0..(Len(text) - Len(sub)) : SubSeq(text, k + 1, k + Len(sub)) = sub

----------------------------------------------------------------------------
(* Claims about process_animation_story *)

\* C1: with max_iterations = N >= 1, in a run where no agent call fails and no
\* review output begins with the approval marker, there are never more than N
\* storyboard, viewer or review calls, the run has returned once the N-th
\* review has returned, and it returns (a pair, no error) after exactly N
\* calls of each of the three.
C1_ExhaustionAfterExactlyNPasses ==
    (max_iterations >= 1 /\ NoFailure /\ NoApproval) =>
        /\ NumCalls("storyboard_design") <= max_iterations
        /\ NumCalls("viewer") <= max_iterations
        /\ NumCalls("reviewer") <= max_iterations
        /\ (/\ NumCalls("reviewer") = max_iterations
            /\ HasReturned(LastCallTo("reviewer"))) => pc = "returned"
        /\ pc = "returned" =>
              /\ NumCalls("storyboard_design") = max_iterations
              /\ NumCalls("viewer") = max_iterations
              /\ NumCalls("reviewer") = max_iterations
              /\ result /= None
              /\ error = None

C1_Witness ==
    /\ pc = "returned"
    /\ max_iterations >= 2
    /\ NoFailure /\ NoApproval
    /\ NumCalls("reviewer") = max_iterations

\* C2: with max_iterations = 0 no storyboard, viewer or review call is ever
\* made, and the run returns after one optimization call and one script-design
\* call with the pair (None, the script-design agent's output).
C2_ZeroIterationsReturnsNoStoryboard ==
    max_iterations = 0 =>
        /\ NumCalls("storyboard_design") = 0
        /\ NumCalls("viewer") = 0
        /\ NumCalls("reviewer") = 0
        /\ pc = "returned" =>
              /\ NumCalls("story_optimization") = 1
              /\ NumCalls("script_design") = 1
              /\ calls[2].agent = "script_design"
              /\ result = Returned(<<None, outcomes[2].returned>>)

C2_Witness ==
    /\ max_iterations = 0
    /\ pc = "returned"
    /\ result.returned[1] = None
    /\ result.returned[2] \in ScriptDesigns

\* C3: when a run has returned, story optimization was called exactly once and
\* script design exactly once, they are the first and the second call (so
\* before every storyboard call), and the second component of the returned
\* pair is what that one script-design call returned.
C3_OptimizeAndDesignOnce ==
    pc = "returned" =>
        /\ CallsTo("story_optimization") = {1}
        /\ CallsTo("script_design") = {2}
        /\ result.returned[2] = outcomes[2].returned

C3_Witness ==
    /\ pc = "returned"
    /\ NumCalls("storyboard_design") >= 3
    /\ result.returned[2] = outcomes[2].returned

\* C4: a review whose output begins with the approval marker is the last call
\* of the run: once it has returned the run has returned, the counter equals
\* the number of earlier reviews (k - 1 for the review of pass k), and the
\* pair is (the storyboard generated in that pass, the script design).
C4_ApprovalStopsAtOnce ==
    \A i \in DOMAIN calls :
        Approves(i) =>
            /\ i = Len(calls)
            /\ pc = "returned"
            /\ NumCalls("reviewer") <= max_iterations
            /\ iteration = NumCalls("reviewer") - 1
            /\ calls[i - 2].agent = "storyboard_design"
            /\ result = Returned(<<outcomes[i - 2].returned, outcomes[2].returned>>)

C4_Witness ==
    /\ Len(calls) > 0
    /\ Approves(Len(calls))
    /\ NumCalls("reviewer") = 2
    /\ iteration = 1
    /\ pc = "returned"

\* C7: every storyboard call made with a revision text (a str, built at line
\* 193 from review feedback) follows a pass: three calls earlier is that
\* pass's storyboard call and one call earlier its review, and the text handed
\* to the agent contains the rendering of the storyboard that earlier call
\* returned after the original-design label and the exact output of that
\* review after the revision-notes label, the labels in this order.
C7_RevisionTextCarriesPreviousPass ==
    \A i \in CallsTo("storyboard_design") :
        ~IsScriptDesignOutput(calls[i].args[1]) =>
            /\ i > 3
            /\ calls[i - 3].agent = "storyboard_design"
            /\ calls[i - 1].agent = "reviewer"
            /\ Contains(calls[i].prompt,
                        <<"original design:\n ">>
                        \o StrStoryboard(outcomes[i - 3].returned))
            /\ Contains(calls[i].prompt,
                        <<"\n\n revision notes:\n ">>
                        \o outcomes[i - 1].returned.str)
            /\ calls[i].prompt =
                  <<"original design:\n ">>
                  \o StrStoryboard(outcomes[i - 3].returned)
                  \o <<"\n\n revision notes:\n ">>
                  \o outcomes[i - 1].returned.str

\* a third pass made from the feedback on the second, whose storyboard differs
\* from the first pass's
C7_Witness ==
    /\ NumCalls("storyboard_design") = 3
    /\ ~IsScriptDesignOutput(calls[9].args[1])
    /\ outcomes[6].returned /= outcomes[3].returned
    /\ outcomes[8].returned.str = <<"b">>

\* C8: the first storyboard call of a run (the third call of all) is made
\* with the ScriptDesignOutput the script-design call returned, flattened for
\* the agent, never with a revision text.
C8_FirstStoryboardCallUsesScriptDesign ==
    \A i \in CallsTo("storyboard_design") :
        (\A j \in CallsTo("storyboard_design") : i <= j) =>
            /\ i = 3
            /\ max_iterations >= 1
            /\ calls[2].agent = "script_design"
            /\ calls[i].args = <<outcomes[2].returned>>
            /\ IsScriptDesignOutput(calls[i].args[1])
            /\ ~Contains(calls[i].prompt, <<"\n\n revision notes:\n ">>)

C8_Witness ==
    /\ max_iterations >= 1
    /\ Len(calls) >= 3
    /\ calls[3].agent = "storyboard_design"
    /\ calls[3].args[1] \in ScriptDesigns

\* C9: when a run has returned after at least one storyboard call, the first
\* component of the returned pair is what the latest storyboard call returned,
\* that storyboard is the one the last viewer call and the last review call
\* were given, and the last call of the run is that review.
C9_ReturnsLatestStoryboard ==
    (pc = "returned" /\ NumCalls("storyboard_design") >= 1) =>
        LET g == LastCallTo("storyboard_design")
        IN  /\ result.returned[1] = outcomes[g].returned
            /\ g = Len(calls) - 2
            /\ calls[g + 1].agent = "viewer"
            /\ calls[g + 1].args = <<outcomes[g].returned>>
            /\ calls[g + 2].agent = "reviewer"
            /\ calls[g + 2].args[3] = outcomes[g].returned
            /\ HasReturned(g + 2)

\* returned on exhaustion, the last storyboard differing from the one before
C9_Witness ==
    /\ pc = "returned"
    /\ NumCalls("storyboard_design") >= 2
    /\ NoApproval
    /\ outcomes[Len(calls) - 2].returned /= outcomes[Len(calls) - 5].returned
    /\ result.returned[1] = outcomes[Len(calls) - 2].returned

\* C10: an agent call that raised is the last call of the run (it is not made
\* again and no other call follows), the run has ended with that exception and
\* no pair has been returned.
C10_FailureAbortsTheRun ==
    \A i \in DOMAIN outcomes :
        HasRaised(i) =>
            /\ i = Len(calls)
            /\ pc = "raised"
            /\ error = Raised(outcomes[i].raised)
            /\ result = None

\* a failure in a later pass, a storyboard having been produced before
C10_Witness ==
    /\ pc = "raised"
    /\ storyboard /= None
    /\ HasRaised(Len(calls))
    /\ calls[Len(calls)].agent = "storyboard_design"
    /\ NumCalls("storyboard_design") = 2

----------------------------------------------------------------------------
(* Claims about the stage methods *)

\* text begins with prefix: text is prefix followed by some rest
BeginsWith(text, prefix) ==
    \E n \in 0..Len(text) : text = prefix \o SubSeq(text, n + 1, Len(text))

\* C5: review_and_suggest returns the agent's output unchanged as the
\* feedback, and needs_revision = FALSE exactly when that output is the
\* approval marker followed by some (possibly empty) text; for every other
\* output (empty, marker after other characters, marker in another form) it
\* returns TRUE.
C5_VerdictIsPrefixTest ==
    (/\ direct /= None
     /\ direct.method = "review_and_suggest"
     /\ direct.value /= None) =>
        LET output == direct.agent_output.returned.str
            value == direct.value.returned
        IN  /\ value[1] = Str(output)
            /\ value[2] \in BOOLEAN
            /\ value[2] = FALSE <=> BeginsWith(output, ApprovalMarker)
            /\ output = <<>> => value[2] = TRUE
            /\ output = <<" ">> \o ApprovalMarker => value[2] = TRUE

\* an approval with text after the marker
C5_Witness ==
    /\ direct /= None
    /\ direct.method = "review_and_suggest"
    /\ direct.value /= None
    /\ direct.agent_output.returned.str = ApprovalMarker \o <<"a">>
    /\ direct.value.returned[2] = FALSE

\* two storyboards show the same: as many shots, and in each position the same
\* scene_elements and the same actions
SameShown(sb1, sb2) ==
    /\ Len(sb1.storyboards) = Len(sb2.storyboards)
    /\ \A i \in 1..Len(sb1.storyboards) :
          /\ sb1.storyboards[i].scene_elements = sb2.storyboards[i].scene_elements
          /\ sb1.storyboards[i].actions = sb2.storyboards[i].actions

\* C6: the text viewer_experience hands to the viewer agent for a storyboard
\* is the text it hands over for every storyboard that shows the same,
\* whatever the shot_id, plot_title, bgm_description, sound_effect and
\* duration of the shots of either.
C6_ViewerInputIgnoresUnseenFields ==
    (direct /= None /\ direct.method = "viewer_experience") =>
        \A other \in Storyboards :
            SameShown(direct.args[1], other) => ViewerInput(other) = direct.prompt

\* a call with two shots, for which a storyboard with other unseen fields exists
C6_Witness ==
    /\ direct /= None
    /\ direct.method = "viewer_experience"
    /\ Len(direct.args[1].storyboards) = 2
    /\ \E other \in Storyboards :
          /\ SameShown(direct.args[1], other)
          /\ other.storyboards[1].bgm_description
                /= direct.args[1].storyboards[1].bgm_description
          /\ other.storyboards[2].shot_id /= direct.args[1].storyboards[2].shot_id

\* C11: whichever of the five agents raises, the exception process_animation_story
\* ends with is that very exception (not None, not another one); when the
\* storyboard agent raised it, design_storyboard has logged it, once, and the
\* other stage methods log nothing.
C11_ErrorReachesCallerUnchanged ==
    \A i \in DOMAIN outcomes :
        HasRaised(i) =>
            /\ outcomes[i].raised \in Errors
            /\ error = Raised(outcomes[i].raised)
            /\ logged = IF calls[i].agent = "storyboard_design"
                        THEN <<outcomes[i].raised>> ELSE <<>>

\* the storyboard agent raised in the second pass
C11_Witness ==
    /\ pc = "raised"
    /\ Len(outcomes) = 6
    /\ HasRaised(6)
    /\ calls[6].agent = "storyboard_design"
    /\ error = Raised("UnexpectedModelBehavior")
    /\ logged = <<"UnexpectedModelBehavior">>

----------------------------------------------------------------------------
(* A run on its own, as a function of what its agents answered *)

\* the number of agent calls process_animation_story(story, n) has made when
\* its calls so far ended as outs says
SoloLen(n, outs) ==
    LET k == Len(outs)
    IN  IF k > 0 /\ "raised" \in DOMAIN outs[k] THEN k
        ELSE IF k < 2 THEN k + 1
        ELSE IF k = 2 THEN (IF 0 < n THEN 3 ELSE 2)
        ELSE IF (k - 2) % 3 /= 0 THEN k + 1
        ELSE IF \/ StartsWith(outs[k].returned.str, ApprovalMarker)
                \/ (k - 2) \div 3 >= n
             THEN k
             ELSE k + 1

\* its j-th call
SoloCall(story, outs, j) ==
    IF j = 1 THEN AgentCall("story_optimization", <<Str(story)>>, story)
    ELSE IF j = 2
    THEN AgentCall("script_design", <<outs[1].returned>>, outs[1].returned.str)
    ELSE IF (j - 3) % 3 = 0
    THEN LET arg == IF j = 3 \/ outs[j - 1].returned.str = <<>>
                    THEN outs[2].returned
                    ELSE Str(<<"original design:\n ">>
                             \o StrStoryboard(outs[j - 3].returned)
                             \o <<"\n\n revision notes:\n ">>
                             \o outs[j - 1].returned.str)
         IN  AgentCall("storyboard_design", <<arg>>, ScriptText(arg))
    ELSE IF (j - 3) % 3 = 1
    THEN AgentCall("viewer", <<outs[j - 1].returned>>,
                   ViewerInput(outs[j - 1].returned))
    ELSE AgentCall("reviewer",
                   <<outs[1].returned, outs[j - 1].returned, outs[j - 2].returned>>,
                   ReviewInput(outs[1].returned.str, outs[j - 1].returned.str,
                               outs[j - 2].returned))

\* whether it has returned, and the pair it has returned then
SoloReturned(n, outs) ==
    /\ Len(outs) >= 2
    /\ "returned" \in DOMAIN outs[Len(outs)]
    /\ SoloLen(n, outs) = Len(outs)
SoloResult(outs) ==
    <<IF Len(outs) = 2 THEN None ELSE outs[Len(outs) - 2].returned,
      outs[2].returned>>

\* the frame f is that of a run on its own with the same arguments and the
\* same answers: the same calls with the same inputs, and the same return
AsIfAlone(f) ==
    /\ f.pc = "start" => f.calls = <<>> /\ f.outcomes = <<>>
    /\ f.pc /= "start" =>
          /\ Len(f.calls) = SoloLen(f.max_iterations, f.outcomes)
          /\ \A j \in DOMAIN f.calls :
                f.calls[j] = SoloCall(f.original_story, f.outcomes, j)
    /\ IF SoloReturned(f.max_iterations, f.outcomes)
       THEN f.pc = "returned" /\ f.result = Returned(SoloResult(f.outcomes))
       ELSE f.pc /= "returned" /\ f.result = None

\* C12: of two runs that interleave at their agent calls, each has made the
\* calls, with the inputs, and has returned the pair, of a run on its own
\* with its arguments and its agents' answers: whatever the other has done.
C12_RunsDoNotInterfere ==
    suspended /= None => AsIfAlone(Frame) /\ AsIfAlone(suspended)

\* both runs have made a revision pass, from different storyboards, each
\* after the other had started, and both have returned
C12_Witness ==
    /\ suspended /= None
    /\ pc = "returned" /\ suspended.pc = "returned"
    /\ max_iterations = 2 /\ suspended.max_iterations = 2
    /\ Len(calls) = 8 /\ Len(suspended.calls) = 8
    /\ outcomes[3].returned /= suspended.outcomes[3].returned
    /\ ~IsScriptDesignOutput(calls[6].args[1])
    /\ ~IsScriptDesignOutput(suspended.calls[6].args[1])
    /\ result.returned[1] /= suspended.result.returned[1]

\* the run is over: it has returned or an exception has left it
Terminated == pc \in {"returned", "raised"}

\* the loop passes begun so far
Passes == NumCalls("storyboard_design")

\* C13: for every max_iterations (negative, zero or positive), when every agent
\* call is answered in the end the run ends, by a return or by an exception,
\* and never begins more than max(max_iterations, 0) loop passes, also when no
\* review approves.
C13_TerminatesWithinBound ==
    /\ <>Terminated
    /\ [](Passes <= IF max_iterations > 0 THEN max_iterations ELSE 0)

\* the bound is reached without any approval
C13_Witness ==
    /\ Terminated
    /\ NoApproval
    /\ max_iterations = 3
    /\ Passes = 3
    /\ pc = "returned"

\* C14 (as claimed): the first storyboard-generation call of a run is made with
\* the ScriptDesign, and every later one (each follows a review that required
\* revision) with the revision text built from the storyboard of the pass
\* before and that review's feedback, whatever the feedback text, the empty
\* text included.  The code tests the feedback's truth value (line 189), so
\* after an empty feedback it calls with the ScriptDesign again.
C14_EveryLaterPassUsesRevisionText ==
    \A j \in DOMAIN calls :
        calls[j].agent = "storyboard_design" =>
            calls[j].args[1] =
                IF j = 3 THEN outcomes[2].returned
                ELSE Str(RevisionRequest(outcomes[j - 3].returned,
                                         outcomes[j - 1].returned.str))

\* the text sent to the agent carries the content of the ScriptDesign sd:
\* the line of each of its characters and of each of its plot points
CarriesScriptDesign(text, sd) ==
    /\ \A i \in DOMAIN sd.characters :
           Contains(text, CharacterLine(sd.characters[i]))
    /\ \A i \in DOMAIN sd.plot_points :
           Contains(text, PlotLine(sd.plot_points[i]))

\* a storyboard call made afresh: the first, or the one after an empty feedback
Afresh(j) == j = 3 \/ outcomes[j - 1].returned.str = <<>>

\* C15 (as claimed): the input of every storyboard-generation call of the loop,
\* the revision passes included, carries the content of the ScriptDesign that
\* the script-design call returned.
C15_EveryGenerationCallCarriesScriptDesign ==
    \A j \in CallsTo("storyboard_design") :
        CarriesScriptDesign(calls[j].prompt, outcomes[2].returned)

\* C15 (amended): the ScriptDesign is never modified after script design has
\* returned it; it is the input, flattened, of the storyboard-generation calls
\* made afresh (the first one, and one that follows an empty feedback text);
\* the input of every other generation call is the revision text alone, made
\* of the previous storyboard and the feedback, which does not carry the
\* ScriptDesign's lines.
C15_ScriptDesignOnlyInFreshCalls ==
    /\ HasReturned(2) => script_design = outcomes[2].returned
    /\ \A j \in CallsTo("storyboard_design") :
           LET sd == outcomes[2].returned
           IN  IF Afresh(j)
               THEN /\ calls[j].args = <<sd>>
                    /\ calls[j].prompt = ScriptText(sd)
                    /\ CarriesScriptDesign(calls[j].prompt, sd)
               ELSE /\ calls[j].args =
                           <<Str(RevisionRequest(outcomes[j - 3].returned,
                                                 outcomes[j - 1].returned.str))>>
                    /\ calls[j].prompt = calls[j].args[1].str
                    /\ (sd.characters /= <<>> =>
                           ~CarriesScriptDesign(calls[j].prompt, sd))

\* three passes: the first, one after an empty feedback (ScriptDesign again)
\* and one after a feedback text (revision text without the ScriptDesign)
C15_Witness ==
    /\ NumCalls("storyboard_design") = 3
    /\ outcomes[2].returned.characters /= <<>>
    /\ outcomes[5].returned.str = <<>>
    /\ calls[6].args = <<outcomes[2].returned>>
    /\ outcomes[8].returned.str = <<"b">>
    /\ ~IsScriptDesignOutput(calls[9].args[1])
    /\ ~CarriesScriptDesign(calls[9].prompt, script_design)

\* the stage of the j-th call of a run: optimize, design_script, then
\* generate, view, review over and over
StageAt(j) ==
    IF j = 1 THEN "story_optimization"
    ELSE IF j = 2 THEN "script_design"
    ELSE IF (j - 3) % 3 = 0 THEN "storyboard_design"
    ELSE IF (j - 3) % 3 = 1 THEN "viewer"
    ELSE "reviewer"

\* C16: within one run the stage calls come one at a time and in the order
\* optimize, design_script, then generate, view, review pass after pass: a call
\* is made only when every call before it has returned (at most the last call
\* is unanswered, and a call that raised is the last), the viewer call of a
\* pass is given exactly the storyboard that pass's generation call returned,
\* and the review call of the pass is given that same storyboard and the
\* narrative that pass's viewer call returned.
C16_StagesInOrderOneAtATime ==
    /\ Len(outcomes) <= Len(calls)
    /\ Len(calls) <= Len(outcomes) + 1
    /\ \A j \in DOMAIN calls :
           /\ calls[j].agent = StageAt(j)
           /\ \A i \in 1..(j - 1) : HasReturned(i)
           /\ calls[j].agent = "viewer" =>
                  /\ calls[j].args = <<outcomes[j - 1].returned>>
                  /\ calls[j].prompt = ViewerInput(outcomes[j - 1].returned)
           /\ calls[j].agent = "reviewer" =>
                  /\ calls[j].args[3] = outcomes[j - 2].returned
                  /\ calls[j].args[3] = calls[j - 1].args[1]
                  /\ calls[j].args[2] = outcomes[j - 1].returned
                  /\ calls[j].prompt = ReviewInput(calls[j].args[1].str,
                                                   outcomes[j - 1].returned.str,
                                                   outcomes[j - 2].returned)

\* two passes whose storyboards and narratives differ, the second review made
C16_Witness ==
    /\ Len(calls) = 8
    /\ Len(outcomes) = 7
    /\ outcomes[6].returned /= outcomes[3].returned
    /\ outcomes[7].returned /= outcomes[4].returned
    /\ calls[7].args = <<outcomes[6].returned>>
    /\ calls[8].args[2] = outcomes[7].returned
    /\ calls[8].args[3] = outcomes[6].returned

\* C17: every review call of a run is given, as its original story, the text
\* the one story-optimization call returned (the same in every pass), and its
\* prompt sets that text under the original-story heading; it is given
\* neither the story as submitted nor the storyboard's text there (unless the
\* optimizer's answer happens to be that very text).
C17_ReviewComparesWithOptimizedStory ==
    /\ NumCalls("story_optimization") <= 1
    /\ \A j \in CallsTo("reviewer") :
           /\ calls[j].args[1] = outcomes[1].returned
           /\ calls[1].agent = "story_optimization"
           /\ optimized_story = outcomes[1].returned
           /\ BeginsWith(calls[j].prompt,
                         <<"original story:\n">> \o outcomes[1].returned.str
                         \o <<"\n\nviewer story:\n">>)
           /\ outcomes[1].returned /= Str(original_story) =>
                  calls[j].args[1] /= Str(original_story)
           /\ outcomes[1].returned /= Str(StrStoryboard(calls[j].args[3])) =>
                  calls[j].args[1] /= Str(StrStoryboard(calls[j].args[3]))

\* two reviews of one run, both given the optimized story
C17_Witness ==
    /\ NumCalls("reviewer") = 2
    /\ outcomes[1].returned = Str(<<"a", "b">>)
    /\ calls[5].args[1] = Str(<<"a", "b">>)
    /\ calls[8].args[1] = Str(<<"a", "b">>)
    /\ original_story = <<"b", "a">>

\* the reviews completed so far whose verdict was that revision is required
RevisionsRequired ==
    {i \in CallsTo("reviewer") : HasReturned(i) /\ ~Approves(i)}

\* a loop pass is under way
InPass == pc \in {"storyboard_design", "viewer", "reviewer"}

\* C18: in a run with max_iterations >= 0 the iteration counter starts at 0, is
\* in every state the number of completed reviews that required revision, lies
\* between 0 and max_iterations, is below max_iterations whenever a loop pass
\* is under way (a pass starts only while iteration < max_iterations), and no
\* step decreases it.
C18_IterationCounter ==
    /\ iteration = 0
    /\ [](max_iterations >= 0 =>
            /\ iteration = Cardinality(RevisionsRequired)
            /\ 0 <= iteration
            /\ iteration <= max_iterations
            /\ InPass => iteration < max_iterations)
    /\ [][max_iterations >= 0 =>
            /\ iteration' >= iteration
            /\ Passes' > Passes => iteration' < max_iterations]_vars

\* the third review approves after two that required revision
C18_Witness ==
    /\ max_iterations = 3
    /\ pc = "returned"
    /\ NumCalls("reviewer") = 3
    /\ Approves(11)
    /\ iteration = 2
    /\ Cardinality(RevisionsRequired) = 2

----------------------------------------------------------------------------
(* Claims about design_storyboard called on its own *)

\* design_storyboard has been called (the record holds its one agent.run call)
StoryboardCalled == direct /= None /\ direct.method = "design_storyboard"

\* C19: design_storyboard shapes its input by its kind: a ScriptDesignOutput
\* is flattened to a text that carries its characters and plot points, any
\* other input (a str, the revision text) is the agent's input exactly as it
\* was given; the agent is run once with that text, and what it returns is
\* returned unchanged (what it raises is raised again).
C19_InputShapedByKind ==
    StoryboardCalled =>
        LET arg == direct.args[1]
        IN  /\ ~IsScriptDesignOutput(arg) => direct.prompt = arg.str
            /\ IsScriptDesignOutput(arg) =>
                   /\ BeginsWith(direct.prompt, <<"\n    characters:\n    ">>)
                   /\ CarriesScriptDesign(direct.prompt, arg)
            /\ direct.agent_output = None => direct.value = None
            /\ direct.agent_output /= None =>
                   /\ direct.value = direct.agent_output
                   /\ "returned" \in DOMAIN direct.value =>
                          direct.value.returned \in PipelineStoryboards

\* a revision text went to the agent as it was, and the answer came back
C19_Witness ==
    /\ StoryboardCalled
    /\ direct.args = <<Str(RevisionRequest(AnimationScriptOutput(<<ShotA>>),
                                           <<"b">>))>>
    /\ direct.prompt = direct.args[1].str
    /\ direct.value = Returned(AnimationScriptOutput(<<ShotB, ShotA>>))

\* where a token stands in a text, and the k-th of these places
Places(text, token) == {p \in DOMAIN text : text[p] = token}
Place(text, token, k) ==
    CHOOSE p \in Places(text, token) :
        Cardinality({q \in Places(text, token) : q <= p}) = k

\* the piece of text of the given length that starts at place p
Piece(text, p, len) == SubSeq(text, p, p + len - 1)

----------------------------------------------------------------------------
(* Claims about the texts of viewer_experience and review_and_suggest *)

\* viewer_experience has been called on its own
ViewerCalled == direct /= None /\ direct.method = "viewer_experience"

\* C21: the text viewer_experience builds is the header line followed by one
\* entry for each shot of the storyboard and nothing else; the entries stand
\* in the order of the shots, the k-th is numbered k (from 1) and gives that
\* shot's scene_elements as the initial composition and then its actions as
\* the subsequent visual change; for a storyboard without shots the text is
\* the header line alone.
C21_ViewerInputOneEntryPerShot ==
    ViewerCalled =>
        LET text == direct.prompt
            shots == direct.args[1].storyboards
            Entry(k) == <<"shot">> \o StrInt(k)
                        \o <<". initial composition: ">>
                        \o shots[k].scene_elements
                        \o <<"\n   subsequent visual change: ">>
                        \o shots[k].actions \o <<"\n">>
        IN  /\ text[1] = "storyboard shots:\n"
            /\ Cardinality(Places(text, "shot")) = Len(shots)
            /\ Cardinality(Places(text, ". initial composition: ")) = Len(shots)
            /\ \A k \in DOMAIN shots :
                   LET p == Place(text, "shot", k)
                       n == Len(Entry(k))
                   IN  /\ Piece(text, p, n) = Entry(k)
                       /\ k = 1 => p = 2
                       /\ p + n - 1 = IF k = Len(shots) THEN Len(text)
                                      ELSE Place(text, "shot", k + 1) - 1
            /\ shots = <<>> => text = <<"storyboard shots:\n">>

\* two shots that show different things
C21_Witness ==
    /\ ViewerCalled
    /\ Len(direct.args[1].storyboards) = 2
    /\ direct.args[1].storyboards[1].scene_elements = <<"b", "a">>
    /\ direct.args[1].storyboards[2].scene_elements = <<"a">>
    /\ direct.args[1].storyboards[1].actions = <<"b">>
    /\ direct.args[1].storyboards[2].actions = <<>>
    /\ Place(direct.prompt, "shot", 2) = 10

\* review_and_suggest has been called on its own
ReviewCalled == direct /= None /\ direct.method = "review_and_suggest"

\* the storyboards that show what sb shows, with other unseen fields
ShowingTheSame(sb) ==
    {AnimationScriptOutput(
         [i \in DOMAIN sb.storyboards |->
             StoryboardInfo(u[i][1], u[i][2], sb.storyboards[i].scene_elements,
                            sb.storyboards[i].actions, u[i][3], u[i][4], u[i][5])]) :
        u \in [DOMAIN sb.storyboards -> Unseen]}

\* C22: the text review_and_suggest builds depends on the story, the viewer's
\* narrative and, of the storyboard, the scene_elements and actions of its
\* shots in order, only: it is the text built for every storyboard that shows
\* the same, whatever the shot_id, plot_title, bgm_description, sound_effect
\* and duration of either; in it the story comes first, under its heading,
\* then the narrative under its heading, then the storyboard's scenes and
\* actions under theirs.
C22_ReviewInputIgnoresUnseenFields ==
    ReviewCalled =>
        LET text == direct.prompt
            story == direct.args[1].str
            viewer == direct.args[2].str
            sb == direct.args[3]
            second == Len(story) + 2
            third == second + Len(viewer) + 1
        IN  /\ \A other \in ShowingTheSame(sb) :
                   /\ SameShown(sb, other)
                   /\ ReviewInput(story, viewer, other) = text
            /\ text[1] = "original story:\n"
            /\ Piece(text, 2, Len(story)) = story
            /\ text[second] = "\n\nviewer story:\n"
            /\ Piece(text, second + 1, Len(viewer)) = viewer
            /\ text[third] = "\n\nkey storyboard info:\nscenes: "
            /\ SubSeq(text, third + 1, Len(text)) =
                   ReprStrList([i \in DOMAIN sb.storyboards |->
                                   sb.storyboards[i].scene_elements])
                   \o <<"\nactions: ">>
                   \o ReprStrList([i \in DOMAIN sb.storyboards |->
                                      sb.storyboards[i].actions])
                   \o <<"\n">>

\* a call with two shots, for which a storyboard with other unseen fields exists
C22_Witness ==
    /\ ReviewCalled
    /\ direct.args[1] = Str(<<"a", "b">>)
    /\ direct.args[2] = Str(<<"b">>)
    /\ Len(direct.args[3].storyboards) = 2
    /\ \E other \in ShowingTheSame(direct.args[3]) :
          /\ SameShown(direct.args[3], other)
          /\ other.storyboards[1].plot_title
                /= direct.args[3].storyboards[1].plot_title
          /\ other.storyboards[2].duration /= direct.args[3].storyboards[2].duration
          /\ ReviewInput(<<"a", "b">>, <<"b">>, other) = direct.prompt

----------------------------------------------------------------------------
(* Further claims about process_animation_story *)

\* C23 (as claimed): an empty text returned by the story-optimization agent
\* is not taken as the optimized story: optimized_story is never the empty
\* text, and neither the script-design call nor any review call is made with
\* an empty optimized story.  optimize_story returns result.output as it is
\* (lines 51-53), so an empty answer goes on to both.
C23_OptimizedStoryNeverEmpty ==
    /\ optimized_story /= Str(<<>>)
    /\ \A j \in DOMAIN calls :
           calls[j].agent \in {"script_design", "reviewer"} =>
               calls[j].args[1] /= Str(<<>>)

\* C24: when the caller cancels a run while an agent call is in flight, at
\* whichever stage (design_storyboard, with its handler, included), that call
\* is abandoned unanswered, the cancellation leaves the coroutine as its
\* exception, no pair is returned, nothing is logged by design_storyboard's
\* handler, and the run takes no further step: no stage call, no call made to
\* make up for the abandoned one.
C24_CancelAbandonsTheRun ==
    /\ [](pc = "cancelled" =>
            /\ result = None
            /\ error = Raised("CancelledError")
            /\ logged = <<>>
            /\ Len(outcomes) = Len(calls)
            /\ outcomes[Len(outcomes)] = Abandoned
            /\ \A i \in 1..(Len(outcomes) - 1) : HasReturned(i))
    /\ [][/\ pc /= "cancelled"
          /\ Abandoned \in {outcomes'[i] : i \in DOMAIN outcomes'} =>
                 /\ pc' = "cancelled"
                 /\ calls' = calls]_vars

\* cancelled inside design_storyboard, in the second pass
C24_Witness ==
    /\ pc = "cancelled"
    /\ Len(calls) = 6
    /\ calls[6].agent = "storyboard_design"
    /\ outcomes[6] = Abandoned
    /\ storyboard = outcomes[3].returned
    /\ result = None

\* C25: with a negative max_iterations the run goes as with max_iterations = 0:
\* the story-optimization call and the script-design call are made, once each
\* and in this order; no storyboard, viewer or review call is ever made; when
\* both have returned the run returns the pair (None, ScriptDesign) with no
\* error, and an error arises only when one of the two calls raised.
C25_NegativeBoundIsZeroBound ==
    max_iterations < 0 =>
        /\ Len(calls) <= 2
        /\ \A j \in DOMAIN calls : calls[j].agent = StageAt(j)
        /\ Passes = 0
        /\ iteration = 0
        /\ storyboard = None
        /\ (HasReturned(1) /\ HasReturned(2)) <=> pc = "returned"
        /\ pc = "returned" =>
               /\ result = Returned(<<None, outcomes[2].returned>>)
               /\ error = None
        /\ error /= None => HasRaised(Len(outcomes))

\* a run with max_iterations = -2 has returned
C25_Witness ==
    /\ max_iterations = -2
    /\ pc = "returned"
    /\ Len(calls) = 2
    /\ result.returned[1] = None
    /\ result.returned[2] \in ScriptDesigns
    /\ error = None

\* C26: during a run the storyboard, viewer and review calls made so far
\* number g >= v >= r with g <= r + 1; when the run has returned the three
\* numbers are equal, and if max_iterations >= 1 they are at least 1 and the
\* storyboard returned is not None, is what the last storyboard call
\* returned, and was the input of a viewer call and of a review call that
\* have both returned.
C26_PassesAreComplete ==
    LET g == NumCalls("storyboard_design")
        v == NumCalls("viewer")
        r == NumCalls("reviewer")
    IN  /\ g >= v
        /\ v >= r
        /\ g <= r + 1
        /\ pc = "returned" =>
               /\ g = v
               /\ v = r
               /\ max_iterations >= 1 =>
                      /\ g >= 1
                      /\ result.returned[1] /= None
                      /\ result.returned[1] \in PipelineStoryboards
                      /\ \E i \in CallsTo("viewer") :
                             /\ calls[i].args = <<result.returned[1]>>
                             /\ HasReturned(i)
                             /\ calls[i + 1].agent = "reviewer"
                             /\ calls[i + 1].args[3] = result.returned[1]
                             /\ HasReturned(i + 1)
                             /\ i + 1 = Len(calls)

\* returned after two whole passes, with the second storyboard
C26_Witness ==
    /\ pc = "returned"
    /\ max_iterations = 2
    /\ NumCalls("storyboard_design") = 2
    /\ NumCalls("viewer") = 2
    /\ NumCalls("reviewer") = 2
    /\ result.returned[1] = outcomes[6].returned
    /\ outcomes[6].returned /= outcomes[3].returned

----------------------------------------------------------------------------
(* Claims about the tools *)

\* batch_process_videos has been called
BatchCalled == tool /= None /\ tool.method = "batch_process_videos"

\* the names of FileNames whose extension, whatever its case, is .mp4, .avi,
\* .mov or .mkv
VideoNames ==
    {<<"a", ".", "m", "p", "4">>,
     <<"b", ".", "M", "P", "4">>,
     <<"c", ".", "A", "v", "i">>,
     <<"d", ".", "m", "o", "v">>,
     <<"e", ".", "t", ".", "M", "K", "V">>}

IsVideoName(name) == name \in VideoNames

\* C27: batch_process_videos calls matting_video once for every entry of the
\* input folder whose extension is .mp4, .avi, .mov or .mkv in whatever case,
\* in the order of the listing, and for no other entry; when matting_video
\* raises for one video that is logged with the video's name, nothing is
\* raised by batch_process_videos, and the videos after it are attempted all
\* the same, so that when the batch returns every video has been attempted.
C27_EveryVideoAttemptedOnce ==
    BatchCalled =>
        LET seen == SubSeq(tool.listing, 1, Len(tool.listing) - Len(tool.todo))
        IN  /\ tool.attempts = SelectSeq(seen, IsVideoName)
            /\ \A i, j \in DOMAIN tool.attempts :
                   tool.attempts[i] = tool.attempts[j] => i = j
            /\ tool.raised = None
            /\ \A i \in DOMAIN tool.errors :
                   \E j \in DOMAIN tool.attempts :
                       tool.errors[i][1] = tool.attempts[j]
            /\ tool.returned =>
                   /\ tool.todo = <<>>
                   /\ tool.attempts = SelectSeq(tool.listing, IsVideoName)

\* the first video failed, the second was attempted, the batch has returned
C27_Witness ==
    /\ BatchCalled
    /\ tool.returned
    /\ tool.listing = <<<<"b", ".", "M", "P", "4">>, <<"a", ".", "m", "p", "4">>>>
    /\ tool.errors = <<<<<<"b", ".", "M", "P", "4">>, "RuntimeError">>>>
    /\ tool.attempts = tool.listing

\* a call of transcribe_video has been made
VideoCall == WhisperDefined /\ tool.call /= None

\* C28: once transcribe_video has returned or raised, the temporary audio
\* file no longer exists, whichever way the call ended; a failed extraction
\* leaves the call as an error, and transcription was not attempted; a call
\* that returns has extracted the audio and transcribed it once.
C28_TempAudioRemoved ==
    VideoCall =>
        /\ tool.call.outcome /= None => ~tool.call.tmp_exists
        /\ tool.call.outcome = None => tool.call.tmp_exists
        /\ IsRaised(tool.call.extracted) =>
               /\ tool.call.outcome = tool.call.extracted
               /\ tool.call.transcribe_calls = 0
        /\ IsReturned(tool.call.outcome) =>
               /\ tool.call.extracted = Returned(TRUE)
               /\ tool.call.transcribe_calls = 1
               /\ tool.call.removed

\* the extraction failed and left a partial file behind, which the call
\* removed before the RuntimeError left it
C28_Witness ==
    /\ VideoCall
    /\ tool.call.outcome = Raised("RuntimeError")
    /\ tool.call.extracted = Raised("RuntimeError")
    /\ tool.call.removed
    /\ ~tool.call.tmp_exists
    /\ tool.call.transcribe_calls = 0

\* C29: after any sequence of constructor calls, failed loads included,
\* every call that returned yielded the same instance, the model was
\* loaded at most once, and an instance that was handed out has a model.
C29_HandedInstanceHasModel ==
    WhisperDefined =>
        /\ \A i, j \in DOMAIN tool.handed :
               IsReturned(tool.handed[i]) /\ IsReturned(tool.handed[j])
                   => tool.handed[i] = tool.handed[j]
        /\ tool.loads <= 1
        /\ Handed => tool._model /= None

----------------------------------------------------------------------------
(* A claim about AgentManager *)

\* C30: once AgentManager has been constructed, each of the five stages has
\* a bound agent, also when the configuration maps no prompt file for a
\* stage; no run fails for a missing agent after calls to the agents of
\* earlier stages have been made.
C30_EveryStageBoundAtConstruction ==
    Constructed =>
        /\ \A stage \in InFlight : Bound(stage)
        /\ ~(pc = "raised" /\ error = Raised("AttributeError")
                           /\ calls /= <<>>)

====
